---- MODULE Spec2Model ----
(***************************************************************************)
(* Transaction ledger of crypto-slack-hash-trx: the Google Sheets store    *)
(* (sheets_manager.py), the chat handler (phase3_main_bot_fixed.py) and    *)
(* the bulk loader (adhoc.py); of the earlier bot (phase3_main_bot.py)     *)
(* its validate_hash and parse_command.                                    *)
(*                                                                         *)
(* Text is modelled by TLA+ strings; Head, Tail, SubSeq, Len and \o give   *)
(* character-level access.  A JSON / Python value is a record whose field  *)
(* t is its type tag and whose field v is its payload.                     *)
(***************************************************************************)
EXTENDS Integers, Sequences, FiniteSets, TLC

VARIABLES
    wsExists,      \* the spreadsheet has a worksheet titled "Transactions"
    grid,          \* the worksheet's non-empty rows, top to bottom (cells are text)
    mgr,           \* the process's SheetsManager object: constructed, is_connected, worksheet
    last,          \* the call that has just run: its arguments, return value and the I/O
                   \* it issued; NoCall once its caller has taken the result
    headerWrites,  \* number of completed insert_row(headers, 1) calls on the spreadsheet
    okLog,         \* the hashes of the log_transaction calls that returned success, in order
    initData,      \* number of data rows the worksheet held before the program first ran
    pc,            \* per concurrent caller: position inside log_transaction
    cl,            \* per concurrent caller: its arguments and the duplicate check's answer
    run,           \* the bulk loader's bulk_import call: its list, position and counters
    norm,          \* a fetched record on its way to a row: the arguments given to
                   \* prepare_transaction_row, the row it returned, the fields the !get
                   \* analysis resolved
    probe          \* a text or a service response given to the validators, the parser,
                   \* fetch_transaction_data and get_trx_price, and what they returned

vars == <<wsExists, grid, mgr, last, headerWrites, okLog, initData, pc, cl, run, norm, probe>>

-----------------------------------------------------------------------------
(* Bounds of the model *)

MaxRows == 3        \* no append is attempted once the worksheet holds this many rows

-----------------------------------------------------------------------------
(* JSON / Python values *)

Absent == [t |-> "absent", v |-> 0]
Null == [t |-> "null", v |-> 0]
JInt(n) == [t |-> "int", v |-> n]
JStr(s) == [t |-> "str", v |-> s]
JBool(b) == [t |-> "bool", v |-> b]
JList(l) == [t |-> "list", v |-> l]
JDict(d) == [t |-> "dict", v |-> d]

\* dict.get(key, default): the default only replaces a missing key, never a null value
Get(d, k, default) == IF d[k].t = "absent" THEN default ELSE d[k]

\* Python truthiness (bool(x)); a dict is falsy when it has no key at all
Truthy(j) ==
    CASE j.t = "absent" -> FALSE
      [] j.t = "null" -> FALSE
      [] j.t = "int" -> j.v # 0
      [] j.t = "str" -> j.v # ""
      [] j.t = "bool" -> j.v
      [] j.t = "list" -> Len(j.v) > 0
      [] j.t = "dict" -> \E k \in DOMAIN j.v : j.v[k].t # "absent"

\* str(x) for the scalar types
PyStr(j) ==
    CASE j.t = "str" -> j.v
      [] j.t = "int" -> ToString(j.v)
      [] j.t = "null" -> "None"
      [] j.t = "bool" -> (IF j.v THEN "True" ELSE "False")
      [] OTHER -> "<repr>"

-----------------------------------------------------------------------------
(* Text and number formatting *)

\* the value of a decimal digit, -1 for any other character
DigitVal(c) ==
    CASE c = "0" -> 0 [] c = "1" -> 1 [] c = "2" -> 2 [] c = "3" -> 3 [] c = "4" -> 4
      [] c = "5" -> 5 [] c = "6" -> 6 [] c = "7" -> 7 [] c = "8" -> 8 [] c = "9" -> 9
      [] OTHER -> -1

RECURSIVE ParseDigits(_, _)
\* the value of a string of decimal digits read after the prefix value acc, -1 if a
\* character is no digit
ParseDigits(s, acc) ==
    IF s = "" THEN acc
    ELSE LET d == DigitVal(Head(s))
         IN  IF d < 0 THEN -1 ELSE ParseDigits(Tail(s), 10 * acc + d)

RECURSIVE Pow10(_)
Pow10(n) == IF n = 0 THEN 1 ELSE 10 * Pow10(n - 1)

RECURSIVE ZeroPad(_, _)
\* s padded on the left with zeros to width w
ZeroPad(s, w) == IF Len(s) >= w THEN s ELSE ZeroPad("0" \o s, w)

\* f"{n / 10**d:.{d}f}" for a non-negative integer n: n scaled down by 10^d and
\* written with d fractional digits (exact where the float division is exact to d digits)
Fixed(n, d) ==
    IF d = 0 THEN ToString(n)
    ELSE ToString(n \div Pow10(d)) \o "." \o ZeroPad(ToString(n % Pow10(d)), d)

\* f"{(micro / 1000000) * price:.4f}" with the price in units of 0.0001 USD: the
\* product rounded to the nearest 0.0001 (the whole coins and the fraction are
\* multiplied apart to stay within TLC's integers)
FiatText(micro, price) ==
    LET whole == micro \div 1000000
        part == micro % 1000000
    IN  Fixed(whole * price + (part * price + 500000) \div 1000000, 4)

\* strftime('%Y-%m-%d %H:%M:%S') of a count of seconds since the epoch, for the
\* first 28 days of January 1970
StrfTime(secs) ==
    LET day == secs \div 86400
        r == secs % 86400
    IN  "1970-01-" \o ZeroPad(ToString(day + 1), 2) \o " "
        \o ZeroPad(ToString(r \div 3600), 2) \o ":"
        \o ZeroPad(ToString((r % 3600) \div 60), 2) \o ":"
        \o ZeroPad(ToString(r % 60), 2)

-----------------------------------------------------------------------------
(* SheetsManager.prepare_transaction_row *)

NoRow == <<>>     \* prepare_transaction_row returned None

\* variant: tokenTransferInfo, when it is an object, is taken before trc20TransferInfo
TokenTransfersFieldBFirst(tx_data) ==
    IF Truthy(tx_data["tokenTransferInfo"]) /\ tx_data["tokenTransferInfo"].t = "dict"
    THEN JList(<<tx_data["tokenTransferInfo"]>>)
    ELSE Get(tx_data, "trc20TransferInfo", JList(<<>>))

\* the token transfers the row is built from: trc20TransferInfo, or tokenTransferInfo
\* wrapped in a list when trc20TransferInfo is falsy and tokenTransferInfo is a dict
TokenTransfers(tx_data) ==
    LET trc20_transfers == Get(tx_data, "trc20TransferInfo", JList(<<>>))
        transfer == tx_data["tokenTransferInfo"]
    IN  IF ~Truthy(trc20_transfers) /\ Truthy(transfer) /\ transfer.t = "dict"
        THEN JList(<<transfer>>)
        ELSE trc20_transfers

\* variant: the amount is always written with six fractional digits
AmountFormattedSixDigits(transfer) ==
    LET amount_str == Get(transfer, "amount_str", JStr("0"))
        n == IF amount_str.t = "str" /\ amount_str.v # ""
             THEN ParseDigits(amount_str.v, 0) ELSE -1
    IN  IF n >= 0 THEN JStr(Fixed(n, 6)) ELSE amount_str

\* variant: an amount that cannot be read is written as zero
AmountFormattedZeroOnError(transfer) ==
    LET amount_str == Get(transfer, "amount_str", JStr("0"))
        decimals == Get(transfer, "decimals", JInt(6))
        n == IF amount_str.t = "str" /\ amount_str.v # ""
             THEN ParseDigits(amount_str.v, 0) ELSE -1
    IN  IF n >= 0 /\ decimals.t = "int" /\ decimals.v >= 0
        THEN JStr(Fixed(n, decimals.v))
        ELSE JStr("0.000000")

\* int(amount_str) / (10 ** decimals) formatted with `decimals` fractional digits;
\* any exception leaves amount_str itself
AmountFormatted(transfer) ==
    LET amount_str == Get(transfer, "amount_str", JStr("0"))
        decimals == Get(transfer, "decimals", JInt(6))
        n == CASE amount_str.t = "int" -> amount_str.v
               [] amount_str.t = "bool" -> (IF amount_str.v THEN 1 ELSE 0)
               [] amount_str.t = "str" /\ amount_str.v # "" -> ParseDigits(amount_str.v, 0)
               [] OTHER -> -1
    IN  IF n >= 0 /\ decimals.t = "int" /\ decimals.v >= 0
        THEN JStr(Fixed(n, decimals.v))
        ELSE amount_str

\* variant: the symbol is written before the recipient and the contract
TokenCellsSymbolFirst(tx_data) ==
    LET trc20_transfers == TokenTransfers(tx_data)
    IN  IF ~Truthy(trc20_transfers)
        THEN <<JStr("TRX"), Get(tx_data, "toAddress", JStr("")), JStr(""), JStr("0.000000")>>
        ELSE IF trc20_transfers.t # "list" THEN NoRow
        ELSE LET transfer == trc20_transfers.v[1]
             IN  IF transfer.t # "dict" THEN NoRow
                 ELSE <<Get(transfer.v, "symbol", JStr("")),
                        Get(transfer.v, "to_address", JStr("")),
                        Get(transfer.v, "contract_address", JStr("")),
                        AmountFormatted(transfer.v)>>

\* the cells [to_addr, token_contract, token_symbol, amount_formatted], or NoRow
\* when reading the transfer raises
TokenCells(tx_data) ==
    LET trc20_transfers == TokenTransfers(tx_data)
    IN  IF ~Truthy(trc20_transfers)
        THEN <<Get(tx_data, "toAddress", JStr("")), JStr(""), JStr("TRX"), JStr("0.000000")>>
        ELSE IF trc20_transfers.t # "list" THEN NoRow          \* len() or [0] raises
        ELSE LET transfer == trc20_transfers.v[1]
             IN  IF transfer.t # "dict" THEN NoRow             \* no .get on it
                 ELSE <<Get(transfer.v, "to_address", JStr("")),
                        Get(transfer.v, "contract_address", JStr("")),
                        Get(transfer.v, "symbol", JStr("")),
                        AmountFormatted(transfer.v)>>

\* total fee in micro-TRX: -1 when the addition or division raises, 0 when cost is
\* not a dict
CostMicro(tx_data) ==
    LET cost == Get(tx_data, "cost", JDict([fee |-> Absent, energy_fee |-> Absent]))
    IN  IF cost.t # "dict" THEN 0
        ELSE LET fee == Get(cost.v, "fee", JInt(0))
                 energy_fee == Get(cost.v, "energy_fee", JInt(0))
             IN  IF fee.t = "int" /\ energy_fee.t = "int" /\ fee.v >= 0 /\ energy_fee.v >= 0
                 THEN fee.v + energy_fee.v
                 ELSE -1

\* seconds shown by the Time(UTC) cell: -1 for no timestamp, -2 when the division raises
TimeSecs(tx_data, env) ==
    LET timestamp == tx_data["timestamp"]
    IN  IF ~Truthy(timestamp) THEN -1
        ELSE IF timestamp.t = "int" /\ timestamp.v > 0
        THEN (timestamp.v \div 1000) + env.tz      \* datetime.fromtimestamp: local time
        ELSE IF timestamp.t = "bool" THEN env.tz
        ELSE -2

\* a price that is a number, in units of 0.0001 USD
PriceUnits(trx_price) == IF trx_price.t = "int" THEN trx_price.v * 10000 ELSE trx_price.v

\* env is the host: its zone offset in seconds (tz) and its clock (now).  trx_price is
\* the price in units of 0.0001 USD, tagged "float", or whatever else the price
\* payload held (a JSON integer is a price in whole USD).
prepare_transaction_row(tx_data, tx_hash, user_id, trx_price, env) ==
    LET block == PyStr(Get(tx_data, "block", JStr("")))
        secs == TimeSecs(tx_data, env)
        time_utc == IF secs = -1 THEN "" ELSE StrfTime(secs)
        from_addr == Get(tx_data, "ownerAddress", JStr(""))
        contract_ret == Get(tx_data, "contractRet", JStr(""))
        confirmed == Get(tx_data, "confirmed", JBool(TRUE))
        status == IF Truthy(confirmed) THEN "CONFIRMED" ELSE "PENDING"
        confirmations == Get(tx_data, "confirmations", JInt(0))
        token == TokenCells(tx_data)
        cost == Get(tx_data, "cost", JDict([fee |-> Absent, energy_fee |-> Absent]))
        micro == CostMicro(tx_data)
        logged_at == StrfTime(env.now + env.tz)
    IN  IF secs = -2 \/ token = NoRow \/ micro = -1 THEN NoRow
        ELSE IF cost.t = "dict" /\ trx_price.t \notin {"float", "int"}
        THEN NoRow                                             \* float * non-number
        ELSE <<JStr(tx_hash), JStr(block), JStr(time_utc), from_addr,
               token[1], token[2], token[3], token[4],
               contract_ret, JStr(status), JStr(PyStr(confirmations)),
               JStr(Fixed(micro, 6)),
               JStr(IF cost.t = "dict" THEN FiatText(micro, PriceUnits(trx_price))
                    ELSE "0.0000"),
               JStr(user_id), JStr(logged_at)>>

\* format_comprehensive_analysis: the token transfers the analysis is built from
AnalysisTransfers(tx_data) ==
    LET trc20_transfers == Get(tx_data, "trc20TransferInfo", JList(<<>>))
        transfer == tx_data["tokenTransferInfo"]
    IN  IF ~Truthy(trc20_transfers) /\ Truthy(transfer) /\ transfer.t = "dict"
        THEN JList(<<transfer>>)
        ELSE trc20_transfers

\* format_comprehensive_analysis: the values shown as To, Token, Token Symbol and
\* Amount, or NoRow when reading the transfer raises and the analysis error is shown
AnalysisCells(tx_data) ==
    LET trc20_transfers == AnalysisTransfers(tx_data)
    IN  IF ~Truthy(trc20_transfers)
        THEN <<Get(tx_data, "toAddress", JStr("")), JStr(""), JStr("TRX"), JStr("0.000000")>>
        ELSE IF trc20_transfers.t # "list" THEN NoRow
        ELSE LET transfer == trc20_transfers.v[1]
             IN  IF transfer.t # "dict" THEN NoRow
                 ELSE <<Get(transfer.v, "to_address", JStr("")),
                        Get(transfer.v, "contract_address", JStr("")),
                        Get(transfer.v, "symbol", JStr("")),
                        AmountFormatted(transfer.v)>>

-----------------------------------------------------------------------------
(* The worksheet as gspread shows it *)

\* SheetsManager.setup_headers: the 15 column titles
Headers ==
    <<"Txn Hash", "Block", "Time(UTC)", "From", "To", "Token", "Token Symbol",
      "Amount/TokenID", "Result", "Status", "Confirmations", "Total Cost TRX",
      "Total Cost USD", "Logged By", "Logged At(UTC)">>

\* the text a cell shows for a value written to it: "<unserialisable>" stands for a
\* value the API refuses (a list or an object)
CellText(j) ==
    CASE j.t = "str" -> j.v
      [] j.t = "int" -> ToString(j.v)
      [] j.t = "null" -> ""
      [] j.t = "bool" -> (IF j.v THEN "TRUE" ELSE "FALSE")
      [] OTHER -> "<unserialisable>"

Serialisable(row) == \A i \in 1..Len(row) : row[i].t \in {"str", "int", "null", "bool"}

\* worksheet.col_values(c)
col_values(g, c) == [i \in 1..Len(g) |-> g[i][c]]

\* variant: the new row is written above the rows already there
append_row_on_top(g, row_data) ==
    <<[i \in 1..Len(row_data) |-> CellText(row_data[i])]>> \o g

\* worksheet.append_row(values): one row after the last row of the table
append_row(g, row_data) == Append(g, [i \in 1..Len(row_data) |-> CellText(row_data[i])])

\* worksheet.insert_row(values, 1): the row becomes row 1, the others move down
insert_row_1(g, values) == <<values>> \o g

-----------------------------------------------------------------------------
(* SheetsManager *)

MsgNotConnected == "Not connected to Google Sheets"
MsgDuplicate == "Transaction already logged (duplicate hash)"
MsgPrepare == "Failed to prepare transaction data"
MsgLogged == "Transaction successfully logged to Google Sheets"
MsgSaveError == "Error saving to sheets"
MsgConnected == "Connected successfully"
MsgConnectFailed == "Connection failed"

\* setup_headers() on worksheet contents g
setup_headers(g) == insert_row_1(g, Headers)

\* variant: connect() writes the header row on every successful connection
connect_always_writes_header(self, io) ==
    IF io.open /\ (wsExists => io.lookup) /\ (~wsExists => io.add) /\ io.insert
    THEN [ok |-> TRUE, msg |-> MsgConnected, exists |-> TRUE,
          grid |-> setup_headers(grid), hw |-> headerWrites + 1, created |-> ~wsExists,
          writes |-> 1,
          fields |-> [self EXCEPT !.is_connected = TRUE, !.worksheet = TRUE]]
    ELSE [ok |-> FALSE, msg |-> MsgConnectFailed, exists |-> wsExists, grid |-> grid,
          hw |-> headerWrites, created |-> FALSE, writes |-> 0,
          fields |-> [self EXCEPT !.is_connected = FALSE]]

\* connect() on the object whose fields are self.  io tells which remote calls
\* succeed: open (credentials, authorisation, open_by_key), lookup (sheet.worksheet),
\* add (sheet.add_worksheet), insert (worksheet.insert_row).  The result carries the
\* return value, the new values of the spreadsheet and of the manager's fields, whether
\* the call created the worksheet, and the number of insert_row calls it issued
\* (writes) and completed (hw counts the completed ones over all calls).
connect(self, io) ==
    LET failed == [ok |-> FALSE, msg |-> MsgConnectFailed, exists |-> wsExists,
                   grid |-> grid, hw |-> headerWrites, created |-> FALSE, writes |-> 0,
                   fields |-> [self EXCEPT !.is_connected = FALSE]]
    IN  IF ~io.open THEN failed
        ELSE IF wsExists /\ io.lookup
        THEN [failed EXCEPT !.ok = TRUE, !.msg = MsgConnected,
                            !.fields = [self EXCEPT !.is_connected = TRUE, !.worksheet = TRUE]]
        ELSE IF wsExists \/ ~io.add THEN failed      \* add_worksheet raises
        ELSE IF ~io.insert
        THEN [failed EXCEPT !.exists = TRUE, !.created = TRUE, !.writes = 1,
                            !.fields = [self EXCEPT !.is_connected = FALSE, !.worksheet = TRUE]]
        ELSE [ok |-> TRUE, msg |-> MsgConnected, exists |-> TRUE,
              grid |-> setup_headers(grid), hw |-> headerWrites + 1, created |-> TRUE,
              writes |-> 1,
              fields |-> [self EXCEPT !.is_connected = TRUE, !.worksheet = TRUE]]

\* variant: check_duplicate never finds the hash
check_duplicate_never(tx_hash, io) ==
    [ret |-> FALSE, reads |-> IF mgr.is_connected THEN 1 ELSE 0, failed |-> {}]

\* check_duplicate(tx_hash); io.read tells whether worksheet.col_values succeeds
check_duplicate(tx_hash, io) ==
    IF ~mgr.is_connected THEN [ret |-> FALSE, reads |-> 0, failed |-> {}]
    ELSE IF ~io.read THEN [ret |-> FALSE, reads |-> 1, failed |-> {"read"}]
    ELSE LET hash_column == col_values(grid, 1)
         IN  [ret |-> \E i \in 1..Len(hash_column) : hash_column[i] = tx_hash,
              reads |-> 1, failed |-> {}]

\* variant: log_transaction without the is_connected test
log_transaction_unguarded(tx_data, tx_hash, user_id, trx_price, env, io) ==
    LET row_data == prepare_transaction_row(tx_data, tx_hash, user_id, trx_price, env)
    IN  IF row_data = NoRow \/ ~io.write \/ ~Serialisable(row_data)
        THEN [ok |-> FALSE, msg |-> MsgSaveError, grid |-> grid, reads |-> 1, writes |-> 1,
              failed |-> {"write"}]
        ELSE [ok |-> TRUE, msg |-> MsgLogged, grid |-> append_row(grid, row_data),
              reads |-> 1, writes |-> 1, failed |-> {}]

\* log_transaction(tx_data, tx_hash, user_id, trx_price); io.read and io.write tell
\* whether col_values and append_row succeed
log_transaction(tx_data, tx_hash, user_id, trx_price, env, io) ==
    IF ~mgr.is_connected
    THEN [ok |-> FALSE, msg |-> MsgNotConnected, grid |-> grid, reads |-> 0, writes |-> 0,
          failed |-> {}]
    ELSE LET dup == check_duplicate(tx_hash, io)
             row_data == prepare_transaction_row(tx_data, tx_hash, user_id, trx_price, env)
         IN  IF dup.ret
             THEN [ok |-> FALSE, msg |-> MsgDuplicate, grid |-> grid, reads |-> dup.reads,
                   writes |-> 0, failed |-> dup.failed]
             ELSE IF row_data = NoRow
             THEN [ok |-> FALSE, msg |-> MsgPrepare, grid |-> grid, reads |-> dup.reads,
                   writes |-> 0, failed |-> dup.failed]
             ELSE IF ~io.write \/ ~Serialisable(row_data)
             THEN [ok |-> FALSE, msg |-> MsgSaveError, grid |-> grid, reads |-> dup.reads,
                   writes |-> 1, failed |-> dup.failed \cup {"write"}]
             ELSE [ok |-> TRUE, msg |-> MsgLogged, grid |-> append_row(grid, row_data),
                   reads |-> dup.reads, writes |-> 1, failed |-> dup.failed]

NoStats == -1     \* get_stats() returned None

\* get_stats()['total_transactions']; io.read tells whether get_all_values succeeds
get_stats(io) ==
    IF ~mgr.is_connected THEN [total |-> NoStats, reads |-> 0, failed |-> {}]
    ELSE IF ~io.read THEN [total |-> NoStats, reads |-> 1, failed |-> {"read"}]
    ELSE LET total_rows == Len(grid) - 1
         IN  [total |-> IF total_rows > 0 THEN total_rows ELSE 0, reads |-> 1, failed |-> {}]

-----------------------------------------------------------------------------
(* Command parsing: phase3_main_bot_fixed.py *)

WhiteSpace == {" ", "\t", "\n", "\r"}
HexDigits ==
    {"0", "1", "2", "3", "4", "5", "6", "7", "8", "9",
     "a", "b", "c", "d", "e", "f", "A", "B", "C", "D", "E", "F"}

IsSpace(c) == c \in WhiteSpace
IsHex(c) == c \in HexDigits

RECURSIVE FirstNonSpace(_, _)
\* the first position at or after i that holds no white space, Len(s) + 1 if none
FirstNonSpace(s, i) ==
    IF i <= Len(s) /\ IsSpace(SubSeq(s, i, i)) THEN FirstNonSpace(s, i + 1) ELSE i

RECURSIVE LastNonSpace(_, _)
\* the last position at or before i that holds no white space, 0 if none
LastNonSpace(s, i) ==
    IF i >= 1 /\ IsSpace(SubSeq(s, i, i)) THEN LastNonSpace(s, i - 1) ELSE i

\* str.strip()
Strip(s) == SubSeq(s, FirstNonSpace(s, 1), LastNonSpace(s, Len(s)))

\* str.startswith(prefix)
StartsWith(s, prefix) == Len(s) >= Len(prefix) /\ SubSeq(s, 1, Len(prefix)) = prefix

Min(S) == CHOOSE x \in S : \A y \in S : x <= y

\* the first position at or after i where sub occurs in s, 0 if none (sub not empty)
Find(s, sub, i) ==
    LET at == {k \in i..(Len(s) - Len(sub) + 1) : SubSeq(s, k, k + Len(sub) - 1) = sub}
    IN  IF at = {} THEN 0 ELSE Min(at)

RECURSIVE Remove(_, _)
\* str.replace(old, ''), old not empty
Remove(s, old) ==
    LET k == Find(s, old, 1)
    IN  IF k = 0 THEN s
        ELSE SubSeq(s, 1, k - 1) \o Remove(SubSeq(s, k + Len(old), Len(s)), old)

\* positions i..j of s hold hexadecimal digits only
AllHexIn(s, i, j) == \A k \in i..j : IsHex(SubSeq(s, k, k))

HashLen == 64

\* variant: the pattern asks for one character more than a hash has
validate_hash_longer(hash_str) ==
    LET t == Strip(hash_str)
    IN  Len(t) = HashLen + 1 /\ AllHexIn(t, 1, Len(t))

\* HASH_PATTERN.match(hash_str.strip()): ^[a-fA-F0-9]{64}$ on the stripped text
validate_hash(hash_str) ==
    LET t == Strip(hash_str)
    IN  Len(t) = HashLen /\ AllHexIn(t, 1, Len(t))

\* re.search(r'"([a-fA-F0-9]{64})"', s): group 1 of the leftmost match, "" when
\* nothing matches
QuotedHash(s) ==
    LET at == {k \in 1..(Len(s) - HashLen - 1) :
                  /\ SubSeq(s, k, k) = "\""
                  /\ SubSeq(s, k + HashLen + 1, k + HashLen + 1) = "\""
                  /\ AllHexIn(s, k + 1, k + HashLen)}
    IN  IF at = {} THEN "" ELSE SubSeq(s, Min(at) + 1, Min(at) + HashLen)

\* s.split()[0], "" when split() is empty
FirstToken(s) ==
    LET i == FirstNonSpace(s, 1)
        spaces == {k \in i..Len(s) : IsSpace(SubSeq(s, k, k))}
    IN  IF i > Len(s) THEN ""
        ELSE SubSeq(s, i, IF spaces = {} THEN Len(s) ELSE Min(spaces) - 1)

NoCommand == "None"    \* command is None
NoHash == ""           \* tx_hash is None

\* parse_command(message_text) of a bot whose mention is `mention` (<@bot_user_id>)
parse_command(message_text, mention) ==
    LET clean_message == Strip(Remove(message_text, mention))
        command == IF StartsWith(clean_message, "!get") THEN "!get"
                   ELSE IF StartsWith(clean_message, "!log") THEN "!log"
                   ELSE IF StartsWith(clean_message, "!help") THEN "!help"
                   ELSE NoCommand
        rest == Strip(SubSeq(clean_message, 5, Len(clean_message)))
        quoted == QuotedHash(rest)
        potential_hash == FirstToken(rest)
    IN  IF command \in {"!help", NoCommand} THEN [command |-> command, tx_hash |-> NoHash]
        ELSE IF quoted # "" THEN [command |-> command, tx_hash |-> quoted]
        ELSE IF potential_hash # "" /\ validate_hash(potential_hash)
        THEN [command |-> command, tx_hash |-> potential_hash]
        ELSE [command |-> command, tx_hash |-> NoHash]

-----------------------------------------------------------------------------
(* External services: the indexing service and the price service *)

\* s[:n]
Prefix(s, n) == IF Len(s) <= n THEN s ELSE SubSeq(s, 1, n)

\* str(e) of the AttributeError that data.get raises on a payload that is no object
NoGetText(data) ==
    "'" \o (CASE data.t = "list" -> "list" [] data.t = "null" -> "NoneType"
              [] data.t = "str" -> "str" [] data.t = "int" -> "int" [] OTHER -> "bool")
        \o "' object has no attribute 'get'"

\* variant: a presence field counts when the payload has the key, whatever it holds
fetch_by_key(resp, timeout_msg) ==
    IF resp.exc = "timeout" THEN [success |-> FALSE, msg |-> timeout_msg]
    ELSE IF resp.exc # "none"
    THEN [success |-> FALSE, msg |-> "Network error: " \o Prefix(resp.exc, 100)]
    ELSE IF resp.status # 200 THEN [success |-> FALSE, msg |-> "API error: " \o ToString(resp.status)]
    ELSE IF resp.data.t # "dict"
    THEN [success |-> FALSE, msg |-> "Network error: " \o Prefix(NoGetText(resp.data), 100)]
    ELSE IF \E k \in {"contractRet", "contract_map", "contractInfo"} :
                resp.data.v[k].t # "absent"
         THEN [success |-> TRUE, msg |-> ""]
         ELSE [success |-> FALSE, msg |-> "Transaction not found on TRON blockchain"]

\* fetch_transaction_data(tx_hash) given what the HTTP request does: resp.exc is
\* "none", "timeout" or str(e) of any other exception of the request or of json(),
\* resp.status the HTTP status, resp.data the decoded payload.  timeout_msg is the
\* text of the version (bot or bulk loader).
fetch_with(resp, timeout_msg) ==
    IF resp.exc = "timeout" THEN [success |-> FALSE, msg |-> timeout_msg]
    ELSE IF resp.exc # "none"
    THEN [success |-> FALSE, msg |-> "Network error: " \o Prefix(resp.exc, 100)]
    ELSE IF resp.status # 200 THEN [success |-> FALSE, msg |-> "API error: " \o ToString(resp.status)]
    ELSE IF resp.data.t # "dict"                               \* data.get raises
    THEN [success |-> FALSE, msg |-> "Network error: " \o Prefix(NoGetText(resp.data), 100)]
    ELSE IF \/ Truthy(resp.data.v["contractRet"])
            \/ Truthy(resp.data.v["contract_map"])
            \/ Truthy(resp.data.v["contractInfo"])
         THEN [success |-> TRUE, msg |-> ""]
         ELSE [success |-> FALSE, msg |-> "Transaction not found on TRON blockchain"]

\* CompleteTransactionBot.fetch_transaction_data
fetch_transaction_data(resp) == fetch_with(resp, "Request timeout - please try again")

\* BulkLoader.fetch_transaction_data
bulk_fetch_transaction_data(resp) == fetch_with(resp, "Request timeout")

FallbackPrice == [t |-> "float", v |-> 700]     \* 0.07 USD, in units of 0.0001 USD

\* get_trx_price() given what the price request does: resp.usd is the value at
\* ['tron']['usd'] of the payload, Absent when that path is missing
get_trx_price(resp) ==
    IF resp.exc = "none" /\ resp.status = 200 /\ resp.usd.t # "absent"
    THEN resp.usd
    ELSE FallbackPrice

\* phase3_main_bot.py, validate_hash(hash_str): the method's body is the price
\* request, so what it returns is a price, and parse_command takes its truth value
validate_hash_main(hash_str, price_resp) ==
    LET price == get_trx_price(price_resp)
    IN  IF price.t = "float" THEN price.v # 0 ELSE Truthy(price)

\* phase3_main_bot.py, parse_command(message_text): the commands are !status, !get
\* and !log, each taking a hash
parse_command_main(message_text, mention, price_resp) ==
    LET clean_message == Strip(Remove(message_text, mention))
        command == IF StartsWith(clean_message, "!status") THEN "!status"
                   ELSE IF StartsWith(clean_message, "!get") THEN "!get"
                   ELSE IF StartsWith(clean_message, "!log") THEN "!log"
                   ELSE NoCommand
        rest == Strip(SubSeq(clean_message, Len(command) + 1, Len(clean_message)))
        quoted == QuotedHash(rest)
        potential_hash == FirstToken(rest)
    IN  IF command = NoCommand THEN [command |-> command, tx_hash |-> NoHash]
        ELSE IF quoted # "" THEN [command |-> command, tx_hash |-> quoted]
        ELSE IF potential_hash # "" /\ validate_hash_main(potential_hash, price_resp)
        THEN [command |-> command, tx_hash |-> potential_hash]
        ELSE [command |-> command, tx_hash |-> NoHash]

\* read_csv_hashes: the test a CSV cell passes to be taken as a hash
csv_hash_check(cell) ==
    LET potential_hash == Strip(cell)
    IN  /\ Len(potential_hash) = 64
        /\ \A k \in 1..Len(potential_hash) :
              SubSeq(potential_hash, k, k) \in
                {"0", "1", "2", "3", "4", "5", "6", "7", "8", "9", "a", "b", "c", "d", "e",
                 "f", "A", "B", "C", "D", "E", "F"}

-----------------------------------------------------------------------------
(* Inputs *)

HashA == "3bb06f21d607e8c19b0638c6f9ecd3986c377d47116f737ab1964d324223bef9"
HashAUpper == "3BB06F21D607E8C19B0638C6F9ECD3986C377D47116F737AB1964D324223BEF9"
HashB == "00000000000000000000000000000000000000000000000000000000000000b2"
Hashes == {HashA, HashAUpper, HashB}

\* a record of the indexing service with no field set
EmptyTx ==
    [block |-> Absent, timestamp |-> Absent, ownerAddress |-> Absent, toAddress |-> Absent,
     contractRet |-> Absent, confirmed |-> Absent, confirmations |-> Absent,
     trc20TransferInfo |-> Absent, tokenTransferInfo |-> Absent, cost |-> Absent,
     contract_map |-> Absent, contractInfo |-> Absent]

EmptyTransfer ==
    [to_address |-> Absent, contract_address |-> Absent, symbol |-> Absent,
     amount_str |-> Absent, decimals |-> Absent]

\* a TRC20 transfer of 1 USDT
UsdtTx ==
    [EmptyTx EXCEPT
        !.block = JInt(7200), !.timestamp = JInt(3600000), !.ownerAddress = JStr("TOwner"),
        !.toAddress = JStr("TContract"), !.contractRet = JStr("SUCCESS"),
        !.confirmed = JBool(TRUE), !.confirmations = JInt(20),
        !.trc20TransferInfo = JList(<<JDict([EmptyTransfer EXCEPT
            !.to_address = JStr("TRecipient"), !.contract_address = JStr("TContract"),
            !.symbol = JStr("USDT"), !.amount_str = JStr("1000000"),
            !.decimals = JInt(6)])>>),
        !.cost = JDict([fee |-> JInt(1100000), energy_fee |-> JInt(13000000)])]

\* the same record with a timestamp that is text
TextTimestampTx == [UsdtTx EXCEPT !.timestamp = JStr("2025-06-16")]

SampleIds == {1, 2}
TxSample(i) == IF i = 1 THEN UsdtTx ELSE TextTimestampTx

Hosts == {[tz |-> 25200, now |-> 90000]}        \* a host at UTC+7

USER_ID_FOR_BULK == "BULK_IMPORT"
ChatUser == "U123"

\* which remote calls succeed during one call
\* connect(): at most one of its remote calls fails for a reason of the network
IoAll ==
    {[open |-> f # "open", lookup |-> f # "lookup", add |-> f # "add", insert |-> f # "insert"] :
        f \in {"none", "open", "lookup", "add", "insert"}}
IoRW == [read : BOOLEAN, write : BOOLEAN]
IoR == [read : BOOLEAN, write : {TRUE}]
IoOk == [read |-> TRUE, write |-> TRUE]

Mention == "<@UBOT>"      \* f'<@{self.bot_user_id}>'
BotUser == "UBOT"

EventIds == {1, 2, 3, 4, 5, 6, 7, 8, 9, 10, 11}
\* Socket Mode events delivered to handle_app_mentions
EventOf(i) ==
    LET by(user, text) == [type |-> "app_mention", user |-> user, text |-> text]
    IN  CASE i = 1 -> by(ChatUser, Mention \o " !log \"" \o HashA \o "\"")
          [] i = 2 -> by(ChatUser, Mention \o " !log " \o HashAUpper)
          [] i = 3 -> by(ChatUser, Mention \o " !log \"" \o HashB \o "\"")
          [] i = 4 -> by(ChatUser, Mention \o " !log \"3bb06f21\"")
          [] i = 5 -> by(ChatUser, Mention \o " !get \"" \o HashA \o "\"")
          [] i = 6 -> by(ChatUser, Mention \o " !help")
          [] i = 7 -> by(ChatUser, Mention \o " hello")
          [] i = 8 -> by(ChatUser, "please " \o Mention \o " !log " \o HashA)
          [] i = 9 -> by(BotUser, Mention \o " !log \"" \o HashA \o "\"")
          [] i = 11 -> by(ChatUser, Mention \o " !get " \o HashA)
          [] OTHER -> [type |-> "message", user |-> ChatUser, text |-> "!log " \o HashA]

Http(exc, status, data) == [exc |-> exc, status |-> status, data |-> data]

FetchIds == {1, 2, 3, 4, 5, 6}
\* what the request to the indexing service does
FetchResponse(i) ==
    CASE i = 1 -> Http("none", 200, JDict(UsdtTx))
      [] i = 2 -> Http("none", 200, JDict(TextTimestampTx))
      [] i = 3 -> Http("none", 200, JDict(EmptyTx))
      [] i = 4 -> Http("none", 500, Null)
      [] i = 5 -> Http("timeout", 0, Null)
      [] OTHER -> Http("Connection refused", 0, Null)

PriceIds == {1, 2, 3}
\* what the request to the price service does
PriceResponse(i) ==
    CASE i = 1 -> [exc |-> "none", status |-> 200, usd |-> FallbackPrice]
      [] i = 2 -> [exc |-> "timeout", status |-> 0, usd |-> Absent]
      [] OTHER -> [exc |-> "none", status |-> 200, usd |-> JStr("0.07")]

-----------------------------------------------------------------------------
(* Records of the indexing service given to prepare_transaction_row *)

\* a plain TRX transfer: no token transfer field
NativeTx ==
    [EmptyTx EXCEPT
        !.block = JInt(7201), !.timestamp = JInt(3600000), !.ownerAddress = JStr("TOwner"),
        !.toAddress = JStr("TDest"), !.contractRet = JStr("SUCCESS"),
        !.confirmed = JBool(TRUE), !.confirmations = JInt(3),
        !.cost = JDict([fee |-> JInt(1100000), energy_fee |-> Absent])]

TransferA == UsdtTx.trc20TransferInfo.v[1]
TransferB ==
    JDict([EmptyTransfer EXCEPT
        !.to_address = JStr("TOther"), !.contract_address = JStr("TOtherContract"),
        !.symbol = JStr("BTT"), !.amount_str = JStr("2500000")])

\* values of timestamp
TimestampValues ==
    {Absent, Null, JInt(0), JInt(3600000), JInt(90061000), JStr("2025-06-16")}

\* values of <<trc20TransferInfo, tokenTransferInfo>>
TransferInfoValues ==
    {<<Absent, Absent>>, <<JList(<<>>), Absent>>, <<JList(<<>>), JList(<<>>)>>,
     <<JList(<<TransferA>>), Absent>>, <<JList(<<TransferA>>), TransferB>>,
     <<JList(<<TransferA, TransferB>>), Absent>>,
     <<Absent, TransferB>>, <<JList(<<>>), TransferB>>, <<Null, TransferB>>,
     <<Absent, JList(<<TransferB>>)>>, <<JList(<<>>), JList(<<TransferB, TransferA>>)>>,
     <<TransferA, Absent>>, <<JStr("none"), Absent>>, <<JList(<<Null>>), Absent>>}

\* values of <<amount_str, decimals>> of a transfer
AmountValues ==
    {<<JStr("1000000"), JInt(6)>>, <<JStr("1000000"), Absent>>, <<JStr("1"), JInt(6)>>,
     <<JStr("1234567"), JInt(2)>>, <<JStr("5"), JInt(0)>>, <<JInt(250), JInt(6)>>,
     <<Absent, JInt(6)>>, <<JStr("abc"), JInt(6)>>, <<JStr("1.5"), JInt(6)>>,
     <<JStr(""), JInt(6)>>, <<Null, JInt(6)>>, <<JStr("0x10"), Absent>>,
     <<JStr("1000000"), JStr("6")>>, <<JStr("1000000"), Null>>}

\* values of cost
CostValues ==
    {Absent, Null, JStr("n/a"), JList(<<>>),
     JDict([fee |-> JInt(1100000), energy_fee |-> JInt(13000000)]),
     JDict([fee |-> JInt(1100000), energy_fee |-> Absent]),
     JDict([fee |-> Absent, energy_fee |-> JInt(345678)]),
     JDict([fee |-> Absent, energy_fee |-> Absent]),
     JDict([fee |-> JStr("1100000"), energy_fee |-> JInt(0)]),
     JDict([fee |-> Null, energy_fee |-> JInt(13000000)])}

\* records with one plain field null, false or missing
PlainFieldRecords ==
    {[UsdtTx EXCEPT !.ownerAddress = Null], [NativeTx EXCEPT !.toAddress = Null],
     [UsdtTx EXCEPT !.block = Null], [UsdtTx EXCEPT !.confirmations = Null],
     [UsdtTx EXCEPT !.confirmed = JBool(FALSE)], [NativeTx EXCEPT !.confirmed = Null],
     [NativeTx EXCEPT !.block = Absent, !.ownerAddress = Absent, !.toAddress = Absent,
                      !.confirmed = Absent, !.confirmations = Absent],
     [UsdtTx EXCEPT !.contractRet = Null, !.contract_map = JDict([TContract |-> JBool(TRUE)])]}

WithTransfer(amount) ==
    [UsdtTx EXCEPT !.trc20TransferInfo =
        JList(<<JDict([TransferA.v EXCEPT !.amount_str = amount[1], !.decimals = amount[2]])>>)]

\* the records given to prepare_transaction_row
Records ==
    {[UsdtTx EXCEPT !.timestamp = v] : v \in TimestampValues}
    \cup {[NativeTx EXCEPT !.trc20TransferInfo = v[1], !.tokenTransferInfo = v[2]] :
            v \in TransferInfoValues}
    \cup {WithTransfer(v) : v \in AmountValues}
    \cup {[UsdtTx EXCEPT !.cost = v] : v \in CostValues}
    \cup PlainFieldRecords

\* a host on UTC and a host at UTC+7, both 25 hours after the epoch
RowHosts == {[tz |-> 0, now |-> 90000], [tz |-> 25200, now |-> 90000]}

\* no record in hand
NoNorm ==
    [tx_data |-> EmptyTx, tx_hash |-> "", user_id |-> "", trx_price |-> Null,
     env |-> [tz |-> 0, now |-> 0], called |-> FALSE, row |-> NoRow,
     analysed |-> FALSE, shown |-> NoRow]

-----------------------------------------------------------------------------
(* Texts and service responses given to the validators, the parser and the services *)

\* an exception text of 120 characters
LongText ==
    LET ten == "connection"
        sixty == ten \o ten \o ten \o ten \o ten \o ten
    IN  sixty \o sixty

\* payloads of the indexing service
Payloads ==
    {JDict(UsdtTx), JDict(EmptyTx),
     JDict([EmptyTx EXCEPT !.block = JInt(7200)]),
     JDict([EmptyTx EXCEPT !.contractRet = JStr("SUCCESS")]),
     JDict([EmptyTx EXCEPT !.contract_map = JDict([TContract |-> JBool(TRUE)])]),
     JDict([EmptyTx EXCEPT !.contractInfo = JDict([TContract |-> JStr("USDT")])]),
     JDict([EmptyTx EXCEPT !.contractRet = JStr("")]),
     JDict([EmptyTx EXCEPT !.contractRet = Null, !.contract_map = JDict([TContract |-> Absent])]),
     JList(<<>>), Null}

\* what the request to the indexing service does
FetchProbes ==
    {Http(exc, status, data) :
        exc \in {"none", "timeout", "Connection refused", LongText},
        status \in {200, 404, 500}, data \in Payloads}

\* what the request to the price service does
PriceProbes ==
    [exc : {"none", "timeout", "Connection refused"}, status : {200, 429},
     usd : {Absent, Null, FallbackPrice, [t |-> "float", v |-> 1234], JStr("0.07"), JInt(0)}]

\* texts given to the validators
HashTexts ==
    LET Bodies == {HashA, HashAUpper, HashB,
                   SubSeq(HashA, 1, 32) \o SubSeq(HashAUpper, 33, 64),
                   SubSeq(HashA, 1, 63), HashA \o "0",
                   SubSeq(HashA, 1, 32) \o " " \o SubSeq(HashA, 33, 63),
                   SubSeq(HashA, 1, 40) \o "-" \o SubSeq(HashA, 42, 64),
                   "", "3bb06f21"}
    IN  {l \o b \o r : l \in {"", " ", "\n\t"}, b \in Bodies, r \in {"", " ", "\r\n", "g"}}

\* message texts given to the parsers
CommandTexts ==
    LET Args == {"\"" \o HashA \o "\"", HashA, HashAUpper, "\"3bb06f21\"", "3bb06f21",
                 "tx \"" \o HashB \o "\"", HashA \o "0", "\"" \o HashA \o "0\"", "",
                 HashB \o " please"}
    IN  {m \o k \o sp \o a :
            m \in {Mention \o " ", "", "hey " \o Mention \o " "},
            k \in {"!get", "!log", "!help", "!status", "hello", ""},
            sp \in {" ", ""}, a \in Args}

\* what the price request inside phase3_main_bot.py's validate_hash does
ValidatorPrices ==
    {[exc |-> "none", status |-> 200, usd |-> FallbackPrice],
     [exc |-> "timeout", status |-> 0, usd |-> Absent],
     [exc |-> "none", status |-> 200, usd |-> JInt(0)]}

NoProbe ==
    [fn |-> "none", text |-> "", resp |-> Http("none", 200, Null),
     price |-> [exc |-> "none", status |-> 200, usd |-> FallbackPrice],
     called |-> FALSE, valid |-> {}, parsed |-> {}, fetched |-> {}, priced |-> Null]

-----------------------------------------------------------------------------
(* State *)

Callers == {"t1", "t2"}     \* two concurrent callers of log_transaction

NewObject == [constructed |-> FALSE, is_connected |-> FALSE, worksheet |-> FALSE]

NoCall ==
    [op |-> "none", command |-> "", hash |-> "", ok |-> FALSE, msg |-> "", reads |-> 0,
     writes |-> 0,
     fetches |-> 0, failed |-> {}, total |-> NoStats, replies |-> <<>>, created |-> FALSE,
     attempts |-> 0, text |-> "", found |-> FALSE]

\* a caller's call of log_transaction: its hash, whether check_duplicate has returned
\* False in it, the remote calls that failed in it, and its return value
IdleCaller == [hash |-> "", passed |-> FALSE, failed |-> {}, ok |-> FALSE, msg |-> ""]

\* bulk_import not running.  hashes is the list read from the CSV file, i the loop
\* index, phase the statement the loop is at, fetched and price the locals of
\* process_hash; stats are success, skipped and failed; done lists the items whose
\* process_hash call returned, sleeps the items followed by the delay.  fetches,
\* prices and appends count the requests started; interrupted tells that a
\* KeyboardInterrupt has been delivered and after counts the indexing requests, price
\* requests and appends started since.
NoRun ==
    [hashes |-> <<>>, i |-> 0, phase |-> "idle", fetched |-> 0, price |-> Null,
     success |-> 0, skipped |-> 0, failed |-> 0, done |-> <<>>, sleeps |-> <<>>,
     fetches |-> 0, prices |-> 0, appends |-> 0, interrupted |-> FALSE, after |-> 0]

\* a row an earlier run of the program logged
EarlierRow ==
    [i \in 1..15 |->
        CellText(prepare_transaction_row(UsdtTx, HashB, ChatUser, FallbackPrice,
                                         [tz |-> 25200, now |-> 3600])[i])]

\* The spreadsheet either has no Transactions worksheet yet, or has one that an
\* earlier run created and logged a row to.  No SheetsManager has been constructed.
Init ==
    /\ wsExists \in BOOLEAN
    /\ grid = (IF wsExists THEN <<Headers, EarlierRow>> ELSE <<>>)
    /\ initData = (IF wsExists THEN 1 ELSE 0)
    /\ mgr = NewObject
    /\ last = NoCall
    /\ headerWrites = 0
    /\ okLog = <<>>
    /\ pc = [c \in Callers |-> "idle"]
    /\ cl = [c \in Callers |-> IdleCaller]
    /\ run = NoRun
    /\ norm = NoNorm
    /\ probe = NoProbe

\* the caller takes the result of the call that has just run
Return ==
    /\ last # NoCall
    /\ last' = NoCall
    /\ UNCHANGED <<wsExists, grid, mgr, headerWrites, okLog, initData, pc, cl, run, norm, probe>>

-----------------------------------------------------------------------------
(* Calls on the SheetsManager, each run to completion *)

\* the effect of a connect() result r
ApplyConnect(r, op) ==
    /\ wsExists' = r.exists
    /\ grid' = r.grid
    /\ headerWrites' = r.hw
    /\ mgr' = [r.fields EXCEPT !.constructed = TRUE]
    /\ last' = [NoCall EXCEPT !.op = op, !.ok = r.ok, !.msg = r.msg, !.created = r.created,
                              !.writes = r.writes, !.attempts = 1]
    /\ UNCHANGED <<okLog, initData, pc, cl, run, norm, probe>>

\* SheetsManager(creds_file, sheet_id), at the start of the bot or of the bulk loader:
\* __init__ sets the fields and calls connect()
New ==
    /\ last = NoCall
    /\ \E io \in IoAll : ApplyConnect(connect(NewObject, io), "new")

\* connect() called again on the existing object
Connect ==
    /\ last = NoCall
    /\ mgr.constructed
    /\ \E io \in IoAll : ApplyConnect(connect(mgr, io), "connect")

CheckDuplicate ==
    /\ last = NoCall
    /\ mgr.constructed
    /\ \E tx_hash \in Hashes, io \in IoR :
        LET r == check_duplicate(tx_hash, io)
        IN  last' = [NoCall EXCEPT !.op = "check_duplicate", !.hash = tx_hash,
                                   !.ok = r.ret, !.reads = r.reads, !.failed = r.failed]
    /\ UNCHANGED <<wsExists, grid, mgr, headerWrites, okLog, initData, pc, cl, run, norm, probe>>

LogTransaction ==
    /\ last = NoCall
    /\ mgr.constructed
    /\ Len(grid) < MaxRows
    /\ \E tx_hash \in Hashes, i \in SampleIds, env \in Hosts, io \in IoRW :
        LET r == log_transaction(TxSample(i), tx_hash, ChatUser, FallbackPrice, env, io)
        IN  /\ grid' = r.grid
            /\ okLog' = IF r.ok THEN Append(okLog, tx_hash) ELSE okLog
            /\ last' = [NoCall EXCEPT !.op = "log_transaction", !.hash = tx_hash,
                                      !.ok = r.ok, !.msg = r.msg, !.reads = r.reads,
                                      !.writes = r.writes, !.failed = r.failed]
    /\ UNCHANGED <<wsExists, mgr, headerWrites, initData, pc, cl, run, norm, probe>>

\* variant: a failed read in get_stats marks the manager disconnected
GetStatsDisconnects ==
    /\ last = NoCall
    /\ mgr.constructed
    /\ \E io \in IoR :
        LET r == get_stats(io)
        IN  /\ last' = [NoCall EXCEPT !.op = "get_stats", !.ok = (r.total # NoStats),
                                      !.total = r.total, !.reads = r.reads,
                                      !.failed = r.failed]
            /\ mgr' = [mgr EXCEPT !.is_connected = @ /\ r.failed = {}]
    /\ UNCHANGED <<wsExists, grid, headerWrites, okLog, initData, pc, cl, run, norm, probe>>

GetStats ==
    /\ last = NoCall
    /\ mgr.constructed
    /\ \E io \in IoR :
        LET r == get_stats(io)
        IN  last' = [NoCall EXCEPT !.op = "get_stats", !.ok = (r.total # NoStats),
                                   !.total = r.total, !.reads = r.reads, !.failed = r.failed]
    /\ UNCHANGED <<wsExists, grid, mgr, headerWrites, okLog, initData, pc, cl, run, norm, probe>>

-----------------------------------------------------------------------------
(* The chat handler and the bulk loader *)

\* sub in s
Contains(s, sub) == Find(s, sub, 1) # 0

Reply(kind, hash) == [kind |-> kind, hash |-> hash]

NoEffect ==
    [grid |-> grid, logged |-> FALSE, ok |-> FALSE, msg |-> "", command |-> NoCommand,
     hash |-> NoHash, text |-> "", found |-> FALSE,
     replies |-> <<>>, fetches |-> 0, reads |-> 0, writes |-> 0, total |-> NoStats,
     failed |-> {}]

\* variant: a failed lookup is printed and not posted
PostUnlessLookupFailed(r, n, reply, f) ==
    IF reply.kind = "lookup_failed" THEN r
    ELSE IF n \in f THEN [r EXCEPT !.failed = @ \cup {n}]
    ELSE [r EXCEPT !.replies = Append(@, reply)]

\* web_client.chat_postMessage as post number n of the call: it raises when f names
\* it, and the handler's outer except then ends the call
Post(r, n, reply, f) ==
    IF n \in f THEN [r EXCEPT !.failed = @ \cup {n}]
    ELSE [r EXCEPT !.replies = Append(@, reply)]

\* handle_app_mentions from the parsed command p on: given the responses of the two
\* services, the host and the set f of remote calls that fail: "post1", "post2", "read"
\* (col_values), "write" (append_row), "stats" (get_all_values).  hash in a reply is
\* the transaction hash its text shows, NoHash when it shows none.
handle_command(event, p, fetch_resp, price_resp, env, f) ==
    LET command == p.command
        tx_hash == p.tx_hash
        parsed == [NoEffect EXCEPT !.command = command]
        started == [parsed EXCEPT !.hash = tx_hash]
        fetched == fetch_transaction_data(fetch_resp)
        processing == [started EXCEPT !.fetches = 1, !.found = fetched.success,
                                      !.replies = <<Reply("processing", tx_hash)>>]
        saved == log_transaction(fetch_resp.data.v, tx_hash, event.user,
                                 get_trx_price(price_resp), env,
                                 [read |-> "read" \notin f, write |-> "write" \notin f])
        stats == get_stats([read |-> "stats" \notin f, write |-> TRUE])
        after_save == [processing EXCEPT !.grid = saved.grid, !.logged = saved.ok,
                                         !.ok = saved.ok, !.msg = saved.msg,
                                         !.reads = saved.reads, !.writes = saved.writes,
                                         !.failed = saved.failed]
    IN  IF command = NoCommand
        THEN IF \E cmd \in {"!get", "!log", "!help"} : Contains(event.text, cmd)
             THEN Post(NoEffect, "post1", Reply("commands", NoHash), f)
             ELSE Post(NoEffect, "post1", Reply("hello", NoHash), f)
        ELSE IF command = "!help" THEN Post(parsed, "post1", Reply("help", NoHash), f)
        ELSE IF tx_hash = NoHash THEN Post(parsed, "post1", Reply("usage", NoHash), f)
        ELSE IF command = "!log" /\ (~mgr.constructed \/ ~mgr.is_connected)
        THEN Post(started, "post1", Reply("not_available", NoHash), f)
        ELSE IF "post1" \in f THEN [started EXCEPT !.failed = {"post1"}]
        ELSE IF ~fetched.success
        THEN Post([processing EXCEPT !.msg = fetched.msg],
                  "post2", Reply("lookup_failed", tx_hash), f)
        ELSE IF command = "!get"
        THEN Post([processing EXCEPT !.ok = TRUE], "post2", Reply("analysis", tx_hash), f)
        ELSE IF saved.ok
        THEN Post([after_save EXCEPT !.reads = @ + stats.reads, !.total = stats.total,
                                     !.failed = @ \cup stats.failed],
                  "post2", Reply("logged", tx_hash), f)
        ELSE Post(after_save, "post2", Reply("log_failed", tx_hash), f)

\* handle_app_mentions(client, req) for the event of the request
handle_app_mentions(event, fetch_resp, price_resp, env, f) ==
    IF event.type # "app_mention" \/ event.user = BotUser THEN NoEffect
    ELSE handle_command(event, parse_command(event.text, Mention),
                        fetch_resp, price_resp, env, f)

\* variant: a failed indexing request is sent a second time
process_hash_retrying(tx_hash, fetch_resp, price_resp, env, f) ==
    LET exists == check_duplicate(tx_hash, [read |-> "precheck" \notin f, write |-> TRUE])
        started == [NoEffect EXCEPT !.hash = tx_hash, !.reads = exists.reads,
                                    !.failed = f \cap {"precheck"}]
        fetched == bulk_fetch_transaction_data(fetch_resp)
        saved == log_transaction(fetch_resp.data.v, tx_hash, USER_ID_FOR_BULK,
                                 get_trx_price(price_resp), env,
                                 [read |-> "read" \notin f, write |-> "write" \notin f])
    IN  IF exists.ret THEN [started EXCEPT !.ok = TRUE, !.msg = "Already exists"]
        ELSE IF ~fetched.success THEN [started EXCEPT !.fetches = 2, !.msg = fetched.msg]
        ELSE [started EXCEPT !.grid = saved.grid, !.logged = saved.ok, !.ok = saved.ok,
                             !.msg = IF saved.ok THEN "Successfully logged" ELSE saved.msg,
                             !.fetches = 1, !.found = TRUE, !.reads = @ + saved.reads,
                             !.writes = saved.writes, !.failed = @ \cup saved.failed]

\* process_hash(tx_hash, index, total) given the responses of the two services, the
\* host and the set f of store calls that fail: "precheck" (col_values of the first
\* check_duplicate), "read" (col_values inside log_transaction), "write" (append_row)
process_hash(tx_hash, fetch_resp, price_resp, env, f) ==
    LET exists == check_duplicate(tx_hash, [read |-> "precheck" \notin f, write |-> TRUE])
        started == [NoEffect EXCEPT !.hash = tx_hash, !.reads = exists.reads,
                                    !.failed = f \cap {"precheck"}]
        fetched == bulk_fetch_transaction_data(fetch_resp)
        saved == log_transaction(fetch_resp.data.v, tx_hash, USER_ID_FOR_BULK,
                                 get_trx_price(price_resp), env,
                                 [read |-> "read" \notin f, write |-> "write" \notin f])
    IN  IF exists.ret THEN [started EXCEPT !.ok = TRUE, !.msg = "Already exists"]
        ELSE IF ~fetched.success THEN [started EXCEPT !.fetches = 1, !.msg = fetched.msg]
        ELSE [started EXCEPT !.grid = saved.grid, !.logged = saved.ok, !.ok = saved.ok,
                             !.msg = IF saved.ok THEN "Successfully logged" ELSE saved.msg,
                             !.fetches = 1, !.found = TRUE, !.reads = @ + saved.reads,
                             !.writes = saved.writes, !.failed = @ \cup saved.failed]

\* the effect of a handler or bulk item result r
ApplyEffect(r, op) ==
    /\ grid' = r.grid
    /\ okLog' = IF r.logged THEN Append(okLog, r.hash) ELSE okLog
    /\ last' = [NoCall EXCEPT !.op = op, !.command = r.command, !.hash = r.hash,
                              !.text = r.text, !.found = r.found,
                              !.ok = r.ok, !.msg = r.msg,
                              !.reads = r.reads, !.writes = r.writes, !.fetches = r.fetches,
                              !.failed = r.failed, !.total = r.total, !.replies = r.replies]
    /\ UNCHANGED <<wsExists, mgr, headerWrites, initData, pc, cl, run, norm, probe>>

\* the sets of failing remote calls explored for one handler call
HandlerFaults == {{}, {"post1"}, {"post2"}, {"read"}, {"write"}, {"read", "write"}, {"stats"}}
\* and for one bulk item
BulkFaults == {{}, {"precheck"}, {"read"}, {"write"}, {"precheck", "write"}, {"read", "write"}}

\* The runs explored: at most one of the indexing response, the price response and
\* the remote calls departs from the plain case (record 1 found, price 1 returned,
\* every call succeeding).
Explored(i, j, f) == (i = 1 /\ j = 1) \/ (f = {} /\ (i = 1 \/ j = 1))

\* one Socket Mode event handled to completion by the running bot
HandleMention ==
    /\ last = NoCall
    /\ Len(grid) < MaxRows
    /\ \E e \in EventIds, env \in Hosts :
        LET event == EventOf(e)
            p == parse_command(event.text, Mention)
        IN  IF event.type # "app_mention" \/ event.user = BotUser
            THEN ApplyEffect([NoEffect EXCEPT !.text = event.text], "handle_app_mentions")
            ELSE \E i \in FetchIds, j \in PriceIds, f \in HandlerFaults :
                    /\ Explored(i, j, f)
                    /\ ApplyEffect([handle_command(event, p, FetchResponse(i),
                                                   PriceResponse(j), env, f)
                                        EXCEPT !.text = event.text],
                                   "handle_app_mentions")

CsvHashes == {HashA, HashB}     \* the valid hashes read_csv_hashes found

\* one item of bulk_import's loop; bulk_import only runs on a connected store
BulkItem ==
    /\ last = NoCall
    /\ mgr.constructed /\ mgr.is_connected
    /\ Len(grid) < MaxRows
    /\ \E tx_hash \in CsvHashes, i \in FetchIds, j \in PriceIds, env \in Hosts, f \in BulkFaults :
        /\ Explored(i, j, f)
        /\ ApplyEffect(process_hash(tx_hash, FetchResponse(i), PriceResponse(j), env, f),
                       "process_hash")

-----------------------------------------------------------------------------
(* log_transaction called by two threads of the Socket Mode listener pool *)

InFlight == {c \in Callers : pc[c] \in {"check", "append"}}

\* a listener thread enters log_transaction
LogCall(c) ==
    /\ pc[c] = "idle"
    /\ last = NoCall
    /\ mgr.constructed
    /\ Len(grid) + Cardinality(InFlight) < MaxRows
    /\ \E tx_hash \in CsvHashes :
        cl' = [cl EXCEPT ![c] = [IdleCaller EXCEPT !.hash = tx_hash]]
    /\ pc' = [pc EXCEPT ![c] = "check"]
    /\ UNCHANGED <<wsExists, grid, mgr, last, headerWrites, okLog, initData, run, norm, probe>>

\* the is_connected test and check_duplicate
LogCheck(c) ==
    /\ pc[c] = "check"
    /\ \E io \in IoR :
        LET dup == check_duplicate(cl[c].hash, io)
        IN  IF ~mgr.is_connected
            THEN /\ cl' = [cl EXCEPT ![c].msg = MsgNotConnected]
                 /\ pc' = [pc EXCEPT ![c] = "done"]
            ELSE IF dup.ret
            THEN /\ cl' = [cl EXCEPT ![c].msg = MsgDuplicate]
                 /\ pc' = [pc EXCEPT ![c] = "done"]
            ELSE /\ cl' = [cl EXCEPT ![c].passed = TRUE, ![c].failed = dup.failed]
                 /\ pc' = [pc EXCEPT ![c] = "append"]
    /\ UNCHANGED <<wsExists, grid, mgr, last, headerWrites, okLog, initData, run, norm, probe>>

\* variant: the append step looks the hash up again, atomically with the write
LogAppendChecked(c) ==
    /\ pc[c] = "append"
    /\ \E env \in Hosts :
        LET row_data == prepare_transaction_row(TxSample(1), cl[c].hash, ChatUser,
                                                FallbackPrice, env)
        IN  IF \E i \in 1..Len(grid) : grid[i][1] = cl[c].hash
            THEN /\ cl' = [cl EXCEPT ![c].msg = MsgDuplicate]
                 /\ UNCHANGED <<grid, okLog>>
            ELSE /\ cl' = [cl EXCEPT ![c].ok = TRUE, ![c].msg = MsgLogged]
                 /\ grid' = append_row(grid, row_data)
                 /\ okLog' = Append(okLog, cl[c].hash)
    /\ pc' = [pc EXCEPT ![c] = "done"]
    /\ UNCHANGED <<wsExists, mgr, last, headerWrites, initData, run, norm, probe>>

\* prepare_transaction_row and worksheet.append_row
LogAppend(c) ==
    /\ pc[c] = "append"
    /\ \E env \in Hosts, write \in BOOLEAN :
        LET row_data == prepare_transaction_row(TxSample(1), cl[c].hash, ChatUser,
                                                FallbackPrice, env)
        IN  IF row_data = NoRow
            THEN /\ cl' = [cl EXCEPT ![c].msg = MsgPrepare]
                 /\ UNCHANGED <<grid, okLog>>
            ELSE IF ~write \/ ~Serialisable(row_data)
            THEN /\ cl' = [cl EXCEPT ![c].msg = MsgSaveError, ![c].failed = @ \cup {"write"}]
                 /\ UNCHANGED <<grid, okLog>>
            ELSE /\ cl' = [cl EXCEPT ![c].ok = TRUE, ![c].msg = MsgLogged]
                 /\ grid' = append_row(grid, row_data)
                 /\ okLog' = Append(okLog, cl[c].hash)
    /\ pc' = [pc EXCEPT ![c] = "done"]
    /\ UNCHANGED <<wsExists, mgr, last, headerWrites, initData, run, norm, probe>>

\* the thread takes the return value
LogReturn(c) ==
    /\ pc[c] = "done"
    /\ pc' = [pc EXCEPT ![c] = "idle"]
    /\ cl' = [cl EXCEPT ![c] = IdleCaller]
    /\ UNCHANGED <<wsExists, grid, mgr, last, headerWrites, okLog, initData, run, norm, probe>>

-----------------------------------------------------------------------------
(* bulk_import, statement by statement, with the operator's interrupt *)

\* the lists read_csv_hashes returns
CsvLists == {<<HashA>>, <<HashA, HashB>>, <<HashB, HashA>>, <<HashA, HashA>>}

\* a KeyboardInterrupt is delivered at most once in a run
Interrupts == IF run.interrupted THEN {FALSE} ELSE BOOLEAN

\* requests started by a step count as started after the interrupt once it was delivered
Started(r, n) == [r EXCEPT !.after = IF r.interrupted THEN @ + n ELSE @]

\* process_hash returned (success, message): the loop counts the item and goes on to
\* the delay
Counted(r, success, message) ==
    [r EXCEPT !.phase = "sleep",
              !.done = Append(@, r.i),
              !.skipped = IF success /\ message = "Already exists" THEN @ + 1 ELSE @,
              !.success = IF success /\ message # "Already exists" THEN @ + 1 ELSE @,
              !.failed = IF ~success THEN @ + 1 ELSE @]

\* the KeyboardInterrupt reaches the loop's handler: break
Broken(r) == [r EXCEPT !.phase = "stopped", !.interrupted = TRUE]

BulkStart ==
    /\ run.phase = "idle"
    /\ last = NoCall
    /\ mgr.constructed /\ mgr.is_connected
    /\ \E hashes \in CsvLists :
        /\ Len(grid) + Len(hashes) <= MaxRows
        /\ run' = [NoRun EXCEPT !.hashes = hashes, !.i = 1, !.phase = "precheck"]
    /\ UNCHANGED <<wsExists, grid, mgr, last, headerWrites, okLog, initData, pc, cl, norm, probe>>

\* process_hash: the check_duplicate call
BulkPrecheck ==
    /\ run.phase = "precheck"
    /\ \E io \in IoR, interrupt \in Interrupts :
        LET exists == check_duplicate(run.hashes[run.i], io)
        IN  run' = IF interrupt THEN Broken(run)
                   ELSE IF exists.ret THEN Counted(run, TRUE, "Already exists")
                   ELSE [run EXCEPT !.phase = "fetch"]
    /\ UNCHANGED <<wsExists, grid, mgr, last, headerWrites, okLog, initData, pc, cl, norm, probe>>

\* process_hash: the fetch_transaction_data call
BulkFetch ==
    /\ run.phase = "fetch"
    /\ \E j \in FetchIds, interrupt \in Interrupts :
        LET fetched == bulk_fetch_transaction_data(FetchResponse(j))
            started == Started([run EXCEPT !.fetches = @ + 1], 1)
        IN  run' = IF interrupt THEN Broken(started)
                   ELSE IF ~fetched.success THEN Counted(started, FALSE, fetched.msg)
                   ELSE [started EXCEPT !.phase = "price", !.fetched = j]
    /\ UNCHANGED <<wsExists, grid, mgr, last, headerWrites, okLog, initData, pc, cl, norm, probe>>

\* process_hash: the get_trx_price call, whose bare except takes the interrupt
BulkPrice ==
    /\ run.phase = "price"
    /\ \E k \in PriceIds, interrupt \in Interrupts :
        LET started == Started([run EXCEPT !.prices = @ + 1], 1)
        IN  run' = IF interrupt
                   THEN [started EXCEPT !.phase = "save", !.price = FallbackPrice,
                                        !.interrupted = TRUE]
                   ELSE [started EXCEPT !.phase = "save",
                                        !.price = get_trx_price(PriceResponse(k))]
    /\ UNCHANGED <<wsExists, grid, mgr, last, headerWrites, okLog, initData, pc, cl, norm, probe>>

\* process_hash: the log_transaction call.  An interrupt delivered during it finds
\* the row either not sent or written whole.
BulkSave ==
    /\ run.phase = "save"
    /\ \E io \in IoRW, env \in Hosts, interrupt \in Interrupts :
        LET saved == log_transaction(FetchResponse(run.fetched).data.v, run.hashes[run.i],
                                     USER_ID_FOR_BULK, run.price, env, io)
            started == Started([run EXCEPT !.appends = @ + saved.writes], saved.writes)
        IN  IF interrupt
            THEN /\ grid' \in {grid, saved.grid}
                 /\ run' = Broken([run EXCEPT !.appends = @ + saved.writes])
                 /\ UNCHANGED okLog
            ELSE /\ grid' = saved.grid
                 /\ okLog' = IF saved.ok THEN Append(okLog, run.hashes[run.i]) ELSE okLog
                 /\ run' = Counted(started, saved.ok,
                                   IF saved.ok THEN "Successfully logged" ELSE saved.msg)
    /\ UNCHANGED <<wsExists, mgr, last, headerWrites, initData, pc, cl, norm, probe>>

\* variant: the delay follows the last item too
BulkSleepAlways ==
    /\ run.phase = "sleep"
    /\ \E interrupt \in Interrupts :
          run' = IF interrupt THEN Broken([run EXCEPT !.sleeps = Append(@, run.i)])
                 ELSE IF run.i < Len(run.hashes)
                 THEN [run EXCEPT !.sleeps = Append(@, run.i), !.i = @ + 1,
                                  !.phase = "precheck"]
                 ELSE [run EXCEPT !.sleeps = Append(@, run.i), !.phase = "finished"]
    /\ UNCHANGED <<wsExists, grid, mgr, last, headerWrites, okLog, initData, pc, cl, norm, probe>>

\* the delay after every item but the last, then the next item
BulkSleep ==
    /\ run.phase = "sleep"
    /\ IF run.i < Len(run.hashes)
       THEN \E interrupt \in Interrupts :
               run' = IF interrupt THEN Broken([run EXCEPT !.sleeps = Append(@, run.i)])
                      ELSE [run EXCEPT !.sleeps = Append(@, run.i), !.i = @ + 1,
                                       !.phase = "precheck"]
       ELSE run' = [run EXCEPT !.phase = "finished"]
    /\ UNCHANGED <<wsExists, grid, mgr, last, headerWrites, okLog, initData, pc, cl, norm, probe>>

\* the final report is printed and the process exits
BulkExit ==
    /\ run.phase \in {"stopped", "finished"}
    /\ run' = NoRun
    /\ UNCHANGED <<wsExists, grid, mgr, last, headerWrites, okLog, initData, pc, cl, norm, probe>>

-----------------------------------------------------------------------------
(* A fetched record normalised, shown and logged *)

\* who logs, and at which price
Loggers ==
    {<<ChatUser, FallbackPrice>>, <<ChatUser, [t |-> "float", v |-> 1234]>>,
     <<ChatUser, JStr("0.07")>>, <<USER_ID_FOR_BULK, FallbackPrice>>}

\* a record has been fetched for a trigger of a chat user or for a bulk item, by a
\* process whose SheetsManager is connected to a worksheet an earlier run filled
InitRow ==
    /\ wsExists = TRUE
    /\ grid = <<Headers, EarlierRow>>
    /\ initData = 1
    /\ mgr = [constructed |-> TRUE, is_connected |-> TRUE, worksheet |-> TRUE]
    /\ last = NoCall
    /\ headerWrites = 0
    /\ okLog = <<>>
    /\ pc = [c \in Callers |-> "idle"]
    /\ cl = [c \in Callers |-> IdleCaller]
    /\ run = NoRun
    /\ probe = NoProbe
    /\ \E tx_data \in Records, by \in Loggers, env \in RowHosts :
        norm = [NoNorm EXCEPT !.tx_data = tx_data, !.tx_hash = HashA, !.user_id = by[1],
                              !.trx_price = by[2], !.env = env]

\* prepare_transaction_row on the record
PrepareRow ==
    /\ ~norm.called
    /\ norm' = [norm EXCEPT !.called = TRUE,
                            !.row = prepare_transaction_row(norm.tx_data, norm.tx_hash,
                                        norm.user_id, norm.trx_price, norm.env)]
    /\ UNCHANGED <<wsExists, grid, mgr, last, headerWrites, okLog, initData, pc, cl, run, probe>>

\* format_comprehensive_analysis on the record
Analyse ==
    /\ ~norm.analysed
    /\ norm' = [norm EXCEPT !.analysed = TRUE, !.shown = AnalysisCells(norm.tx_data)]
    /\ UNCHANGED <<wsExists, grid, mgr, last, headerWrites, okLog, initData, pc, cl, run, probe>>

\* log_transaction on the record
LogRecord ==
    /\ last = NoCall
    /\ mgr.constructed
    /\ Len(grid) < MaxRows
    /\ \E io \in IoRW :
        LET r == log_transaction(norm.tx_data, norm.tx_hash, norm.user_id, norm.trx_price,
                                 norm.env, io)
        IN  /\ grid' = r.grid
            /\ okLog' = IF r.ok THEN Append(okLog, norm.tx_hash) ELSE okLog
            /\ last' = [NoCall EXCEPT !.op = "log_transaction", !.hash = norm.tx_hash,
                                      !.ok = r.ok, !.msg = r.msg, !.reads = r.reads,
                                      !.writes = r.writes, !.failed = r.failed]
    /\ UNCHANGED <<wsExists, mgr, headerWrites, initData, pc, cl, run, norm, probe>>

-----------------------------------------------------------------------------
(* Texts validated and parsed, the services' answers classified *)

\* a text is about to be validated or parsed, or the answer of the indexing service
\* or of the price service classified
InitPure ==
    /\ wsExists = TRUE
    /\ grid = <<Headers, EarlierRow>>
    /\ initData = 1
    /\ mgr = [constructed |-> TRUE, is_connected |-> TRUE, worksheet |-> TRUE]
    /\ last = NoCall
    /\ headerWrites = 0
    /\ okLog = <<>>
    /\ pc = [c \in Callers |-> "idle"]
    /\ cl = [c \in Callers |-> IdleCaller]
    /\ run = NoRun
    /\ norm = NoNorm
    /\ \/ \E resp \in FetchProbes : probe = [NoProbe EXCEPT !.fn = "fetch", !.resp = resp]
       \/ \E resp \in PriceProbes : probe = [NoProbe EXCEPT !.fn = "price", !.price = resp]
       \/ \E text \in HashTexts, resp \in ValidatorPrices :
              probe = [NoProbe EXCEPT !.fn = "hash", !.text = text, !.price = resp]
       \/ \E text \in CommandTexts, resp \in ValidatorPrices :
              probe = [NoProbe EXCEPT !.fn = "text", !.text = text, !.price = resp]

\* the validators of the two bot versions and of the bulk loader on the text
Validate ==
    /\ probe.fn = "hash" /\ ~probe.called
    /\ probe' = [probe EXCEPT !.called = TRUE,
                              !.valid = [fixed |-> validate_hash(probe.text),
                                         main |-> validate_hash_main(probe.text, probe.price),
                                         csv |-> csv_hash_check(probe.text)]]
    /\ UNCHANGED <<wsExists, grid, mgr, last, headerWrites, okLog, initData, pc, cl, run, norm>>

\* parse_command of the two bot versions on the message text
Parse ==
    /\ probe.fn = "text" /\ ~probe.called
    /\ probe' = [probe EXCEPT !.called = TRUE,
                              !.parsed = [fixed |-> parse_command(probe.text, Mention),
                                          main |-> parse_command_main(probe.text, Mention,
                                                                      probe.price)]]
    /\ UNCHANGED <<wsExists, grid, mgr, last, headerWrites, okLog, initData, pc, cl, run, norm>>

\* fetch_transaction_data of the bot and of the bulk loader on the response
Fetch ==
    /\ probe.fn = "fetch" /\ ~probe.called
    /\ probe' = [probe EXCEPT !.called = TRUE,
                              !.fetched = [bot |-> fetch_transaction_data(probe.resp),
                                           bulk |-> bulk_fetch_transaction_data(probe.resp)]]
    /\ UNCHANGED <<wsExists, grid, mgr, last, headerWrites, okLog, initData, pc, cl, run, norm>>

\* get_trx_price on the response
Price ==
    /\ probe.fn = "price" /\ ~probe.called
    /\ probe' = [probe EXCEPT !.called = TRUE, !.priced = get_trx_price(probe.price)]
    /\ UNCHANGED <<wsExists, grid, mgr, last, headerWrites, okLog, initData, pc, cl, run, norm>>

-----------------------------------------------------------------------------
(* Specifications *)

\* the store's interface, called directly
Next ==
    \/ New
    \/ Connect
    \/ CheckDuplicate
    \/ LogTransaction
    \/ GetStats
    \/ Return

Spec == Init /\ [][Next]_vars

\* the bot and the bulk loader at work, one trigger at a time
NextApp ==
    \/ New
    \/ HandleMention
    \/ BulkItem
    \/ Return

SpecApp == Init /\ [][NextApp]_vars

\* two listener threads in log_transaction, their steps interleaved
NextConc ==
    \/ New
    \/ Return
    \/ \E c \in Callers : LogCall(c)
    \/ \E c \in Callers : LogCheck(c)
    \/ \E c \in Callers : LogAppend(c)
    \/ \E c \in Callers : LogReturn(c)

SpecConc == Init /\ [][NextConc]_vars

\* the bulk loader's run
NextBulk ==
    \/ New
    \/ Return
    \/ BulkStart
    \/ BulkPrecheck
    \/ BulkFetch
    \/ BulkPrice
    \/ BulkSave
    \/ BulkSleep
    \/ BulkExit

SpecBulk == Init /\ [][NextBulk]_vars

\* fetched records through prepare_transaction_row, the analysis and log_transaction
NextRow ==
    \/ Return
    \/ PrepareRow
    \/ Analyse
    \/ LogRecord

SpecRow == InitRow /\ [][NextRow]_vars

\* texts validated and parsed, the two services' answers classified
NextPure ==
    \/ Fetch
    \/ Price
    \/ Validate
    \/ Parse

SpecPure == InitPure /\ [][NextPure]_vars

-----------------------------------------------------------------------------
(* Properties *)

\* the number of rows of g whose first cell is h
Occurrences(g, h) == Cardinality({i \in 1..Len(g) : g[i][1] = h})

\* the rows of g other than the header row
DataRows(g) == SelectSeq(g, LAMBDA r : r # Headers)

\* the step is a direct call of op, seen from the state before it
Calls(ops) == last = NoCall /\ last'.op \in ops

\* C1: on a connected store whose reads and writes succeed, log_transaction is
\* idempotent per hash: a call for a hash the ledger lacks, with a well-formed
\* record, returns success; a call that returns success appends exactly one row,
\* carrying its hash; a later call with a hash that an earlier call logged returns
\* failure with the duplicate-hash message, issues no write and leaves the ledger,
\* and so its row count, as it was.
IdempotentLogging ==
    [][(Calls({"log_transaction"}) /\ mgr.is_connected /\ last'.failed = {}) =>
        /\ (\E k \in 1..Len(okLog) : okLog[k] = last'.hash) =>
                /\ ~last'.ok /\ last'.msg = MsgDuplicate
                /\ last'.writes = 0
                /\ grid' = grid
        /\ last'.ok =>
                /\ last'.writes = 1
                /\ Len(grid') = Len(grid) + 1
                /\ SubSeq(grid', 1, Len(grid)) = grid
                /\ grid'[Len(grid')][1] = last'.hash
                /\ Occurrences(grid', last'.hash) = 1
        /\ \A h \in Hashes, env \in Hosts :
                Occurrences(grid, h) = 0 =>
                    log_transaction(UsdtTx, h, ChatUser, FallbackPrice, env, IoOk).ok
      ]_vars

\* the second of two calls with one hash has been rejected as a duplicate
IdempotentLoggingSeen ==
    /\ last.op = "log_transaction" /\ last.failed = {}
    /\ mgr.is_connected
    /\ \E k \in 1..Len(okLog) : okLog[k] = last.hash
    /\ last.msg = MsgDuplicate
    /\ Occurrences(grid, last.hash) = 1

\* C2: with the chat handler and the bulk loader logging one trigger at a time, no
\* value occurs more than once in column 1 of the ledger.
NoRepeatedHash == \A i, j \in 1..Len(grid) : i # j => grid[i][1] # grid[j][1]

\* C3: when two callers are in log_transaction for the same hash and both duplicate
\* checks read the column and return before either append, then, the writes
\* succeeding, both calls return success and the ledger holds two rows for the hash.
RaceAppendsTwice ==
    \A c, d \in Callers :
        (/\ c # d
         /\ pc[c] = "done" /\ pc[d] = "done"
         /\ cl[c].hash = cl[d].hash
         /\ cl[c].passed /\ cl[d].passed
         /\ cl[c].failed = {} /\ cl[d].failed = {})
        => /\ cl[c].ok /\ cl[d].ok
           /\ Occurrences(grid, cl[c].hash) = 2

\* both callers have returned success for one hash, which the ledger holds twice
RaceAppendsTwiceSeen ==
    /\ pc["t1"] = "done" /\ pc["t2"] = "done"
    /\ cl["t1"].hash = cl["t2"].hash
    /\ cl["t1"].passed /\ cl["t2"].passed
    /\ cl["t1"].failed = {} /\ cl["t2"].failed = {}
    /\ cl["t1"].ok /\ cl["t2"].ok
    /\ Occurrences(grid, cl["t1"].hash) = 2

LowerCase(c) ==
    CASE c = "A" -> "a" [] c = "B" -> "b" [] c = "C" -> "c"
      [] c = "D" -> "d" [] c = "E" -> "e" [] c = "F" -> "f"
      [] OTHER -> c

\* a and b are the same text but for the case of the letters A to F
SameHex(a, b) ==
    /\ Len(a) = Len(b)
    /\ \A k \in 1..Len(a) : LowerCase(SubSeq(a, k, k)) = LowerCase(SubSeq(b, k, k))

\* C4: a log_transaction call whose duplicate check reads the column, for a hash
\* the ledger holds in some letter case, is rejected and appends no row.
CaseInsensitiveSuppression ==
    [][(/\ Calls({"log_transaction"}) /\ mgr.is_connected
        /\ last'.failed = {}
        /\ \E i \in 1..Len(grid) : SameHex(grid[i][1], last'.hash))
       => (~last'.ok /\ grid' = grid)
      ]_vars

\* C5: a log_transaction call in which the read of the hash column fails appends no
\* row and returns failure.
ReadFailureStopsAppend ==
    [][(Calls({"log_transaction"}) /\ "read" \in last'.failed)
       => (~last'.ok /\ grid' = grid)
      ]_vars

\* C6: while is_connected is false, log_transaction, whatever its arguments and
\* whatever the backing store would answer, returns (False, not connected) without a
\* read or a write, and the chat handler, given a !log trigger, issues no fetch, no
\* read and no write, and answers a trigger that carries a valid hash with the
\* not-available reply (one without a valid hash gets the usage reply).
DisconnectedFailsFast ==
    [][(last = NoCall /\ ~mgr.is_connected) =>
        /\ \A h \in Hashes, i \in SampleIds, env \in Hosts, io \in IoRW :
                log_transaction(TxSample(i), h, ChatUser, FallbackPrice, env, io)
                    = [ok |-> FALSE, msg |-> MsgNotConnected, grid |-> grid, reads |-> 0,
                       writes |-> 0, failed |-> {}]
        /\ (last'.op = "handle_app_mentions" /\ last'.command = "!log") =>
                /\ last'.fetches = 0 /\ last'.reads = 0 /\ last'.writes = 0
                /\ grid' = grid
                /\ last'.failed \subseteq {"post1"}
                /\ (last'.hash # NoHash /\ last'.failed = {}) =>
                        last'.replies = <<Reply("not_available", NoHash)>>
      ]_vars

\* a !log trigger with a valid hash has been answered while the store was not connected
DisconnectedFailsFastSeen ==
    /\ ~mgr.is_connected
    /\ last.op = "handle_app_mentions" /\ last.command = "!log"
    /\ last.hash \in Hashes
    /\ last.replies = <<Reply("not_available", NoHash)>>
    /\ last.fetches = 0

\* C7: the total get_stats returns is the number of data rows of the ledger, which
\* is the number of data rows at connect time plus the number of log_transaction
\* calls that returned success.
StatsCountDataRows ==
    (last.op = "get_stats" /\ last.total # NoStats) =>
        /\ last.total = Len(DataRows(grid))
        /\ last.total = initData + Len(okLog)

\* C8: a connect() that creates the worksheet issues the header write exactly once,
\* putting the 15 titles in row 1; a connect() on a spreadsheet that has the
\* worksheet issues none and leaves the rows alone; over any sequence of connect()
\* calls the header is written at most once.
HeaderWrittenOnce ==
    [][Calls({"new", "connect"}) =>
        /\ wsExists => (last'.writes = 0 /\ ~last'.created /\ grid' = grid)
        /\ last'.created => (~wsExists /\ last'.writes = 1)
        /\ (last'.created /\ last'.ok) =>
                /\ grid' = <<Headers>> \o grid
                /\ Len(grid'[1]) = 15
                /\ headerWrites' = headerWrites + 1
        /\ headerWrites' <= 1
        /\ Len(grid') - Len(DataRows(grid')) <= 1
      ]_vars

\* a connect() has found the worksheet an earlier connect() created and headed
HeaderWrittenOnceSeen ==
    /\ last.op = "connect" /\ last.ok /\ ~last.created /\ last.writes = 0
    /\ headerWrites = 1
    /\ grid[1] = Headers

\* C9: the constructor makes one connection attempt, after which is_connected tells
\* whether it succeeded; check_duplicate, log_transaction and get_stats leave
\* is_connected as it is, false or true, whether or not their reads and writes fail.
ConnectionStateStable ==
    [][last = NoCall =>
        /\ last'.op = "new" => (last'.attempts = 1 /\ mgr'.is_connected = last'.ok)
        /\ last'.op \in {"check_duplicate", "log_transaction", "get_stats"} =>
                mgr'.is_connected = mgr.is_connected
      ]_vars

\* a read has failed in get_stats on a connected store, which is still connected
ConnectionStateStableSeen ==
    /\ last.op = "get_stats" /\ "read" \in last.failed
    /\ mgr.is_connected

\* C10: every call leaves the data rows as they are, in their order, or adds one
\* complete row after the last row.
AppendOnly ==
    [][Calls({"new", "connect", "check_duplicate", "log_transaction", "get_stats"}) =>
        \/ DataRows(grid') = DataRows(grid)
        \/ /\ Len(grid') = Len(grid) + 1
           /\ SubSeq(grid', 1, Len(grid)) = grid
           /\ Len(grid'[Len(grid')]) = 15
           /\ DataRows(grid') = Append(DataRows(grid), grid'[Len(grid')])
      ]_vars

\* a row has been appended after a data row that was there before
AppendOnlySeen ==
    /\ last.op = "log_transaction" /\ last.ok
    /\ Len(DataRows(grid)) >= 2
    /\ grid[Len(grid)][1] = last.hash

\* C11: once a KeyboardInterrupt has been delivered to bulk_import, no indexing
\* request, price request or append is started, for the item in hand or a later one.
InterruptStopsWork == run.interrupted => run.after = 0

\* the fetcher classifies the record as found
Found(tx_data) == fetch_transaction_data(Http("none", 200, JDict(tx_data))).success

\* C12: for every record the fetcher classifies as found, prepare_transaction_row
\* returns a row of 15 cells none of which is absent or null, and log_transaction
\* does not fail for want of a row.
NormalizationTotal ==
    Found(norm.tx_data) =>
        /\ norm.called =>
                /\ norm.row # NoRow
                /\ Len(norm.row) = 15
                /\ \A i \in 1..Len(norm.row) : norm.row[i].t \notin {"absent", "null"}
        /\ last.op = "log_transaction" => last.msg # MsgPrepare

\* field A holds a transfer: trc20TransferInfo is a non-empty list of objects
FieldAHolds(tx_data) ==
    /\ tx_data.trc20TransferInfo.t = "list"
    /\ Len(tx_data.trc20TransferInfo.v) > 0
    /\ tx_data.trc20TransferInfo.v[1].t = "dict"

\* field A is absent or empty
FieldAEmpty(tx_data) == ~Truthy(tx_data.trc20TransferInfo)

\* field B holds a transfer: tokenTransferInfo is an object or a non-empty list of objects
FieldBHolds(tx_data) ==
    \/ tx_data.tokenTransferInfo.t = "dict" /\ Truthy(tx_data.tokenTransferInfo)
    \/ /\ tx_data.tokenTransferInfo.t = "list"
       /\ Len(tx_data.tokenTransferInfo.v) > 0
       /\ tx_data.tokenTransferInfo.v[1].t = "dict"

\* the first transfer of field B
FieldBFirst(tx_data) ==
    IF tx_data.tokenTransferInfo.t = "dict" THEN tx_data.tokenTransferInfo.v
    ELSE tx_data.tokenTransferInfo.v[1].v

\* cells 5 to 7 of the row are the transfer's to_address, contract_address and symbol
CellsFrom(row, transfer) ==
    /\ row[5] = Get(transfer, "to_address", JStr(""))
    /\ row[6] = Get(transfer, "contract_address", JStr(""))
    /\ row[7] = Get(transfer, "symbol", JStr(""))

\* cells 5 to 7 of the row are the top-level toAddress, no token, and TRX
CellsNative(row, tx_data) ==
    /\ row[5] = Get(tx_data, "toAddress", JStr(""))
    /\ row[6] = JStr("")
    /\ row[7] = JStr("TRX")

\* C13: in a row prepare_transaction_row returns, To, Token and Token Symbol are the
\* to_address, contract_address and symbol of the record's token transfer whenever
\* field A or field B holds one, and toAddress, "" and TRX only when neither does;
\* the !get analysis shows the same three values.
TransferFieldsUsed ==
    (norm.called /\ norm.row # NoRow) =>
        /\ IF FieldAHolds(norm.tx_data)
           THEN CellsFrom(norm.row, norm.tx_data.trc20TransferInfo.v[1].v)
           ELSE IF FieldAEmpty(norm.tx_data) /\ FieldBHolds(norm.tx_data)
           THEN CellsFrom(norm.row, FieldBFirst(norm.tx_data))
           ELSE CellsNative(norm.row, norm.tx_data)
        /\ (norm.analysed /\ norm.shown # NoRow) =>
                \A i \in 1..3 : norm.shown[i] = norm.row[i + 4]

\* C14: when trc20TransferInfo is a non-empty list, cells 5 to 8 of the row come from
\* its first element, whatever tokenTransferInfo holds.
FieldAFirst ==
    (norm.called /\ norm.row # NoRow /\ FieldAHolds(norm.tx_data)) =>
        /\ CellsFrom(norm.row, norm.tx_data.trc20TransferInfo.v[1].v)
        /\ norm.row[8] = AmountFormatted(norm.tx_data.trc20TransferInfo.v[1].v)

\* a row has been built from field A of a record whose field B names another transfer
FieldAFirstSeen ==
    /\ norm.called /\ norm.row # NoRow
    /\ FieldAHolds(norm.tx_data)
    /\ norm.tx_data.tokenTransferInfo = TransferB
    /\ norm.row[5] = JStr("TRecipient") /\ norm.row[7] = JStr("USDT")
    /\ norm.row[8] = JStr("1.000000")

\* C15: when trc20TransferInfo is absent or empty and tokenTransferInfo holds a
\* transfer, as one object or as a list of objects, cells 5 to 8 of the row come from
\* its first transfer; the row has the no-transfer cells only when both are empty.
FieldBNormalised ==
    (norm.called /\ norm.row # NoRow /\ FieldAEmpty(norm.tx_data)) =>
        IF FieldBHolds(norm.tx_data)
        THEN /\ CellsFrom(norm.row, FieldBFirst(norm.tx_data))
             /\ norm.row[8] = AmountFormatted(FieldBFirst(norm.tx_data))
        ELSE /\ CellsNative(norm.row, norm.tx_data)
             /\ norm.row[8] = JStr("0.000000")

\* the record has a transfer the row is built from: the first of field A, or field B
\* as an object
HasUsedTransfer(tx_data) ==
    \/ FieldAHolds(tx_data)
    \/ /\ FieldAEmpty(tx_data)
       /\ tx_data.tokenTransferInfo.t = "dict" /\ Truthy(tx_data.tokenTransferInfo)

UsedTransfer(tx_data) ==
    IF FieldAHolds(tx_data) THEN tx_data.trc20TransferInfo.v[1].v
    ELSE tx_data.tokenTransferInfo.v

\* s is a non-empty string of decimal digits
IsDigits(s) == s # "" /\ \A k \in 1..Len(s) : DigitVal(SubSeq(s, k, k)) >= 0

\* amount_str parses as an integer
AmountParses(transfer) ==
    \/ transfer.amount_str.t = "int"
    \/ transfer.amount_str.t = "str" /\ IsDigits(transfer.amount_str.v)

AmountValue(transfer) ==
    IF transfer.amount_str.t = "int" THEN transfer.amount_str.v
    ELSE ParseDigits(transfer.amount_str.v, 0)

\* text is n / 10^d in decimal notation with exactly d fractional digits
IsScaled(text, n, d) ==
    IF d = 0 THEN text = ToString(n)
    ELSE /\ Len(text) >= d + 2
         /\ SubSeq(text, Len(text) - d, Len(text) - d) = "."
         /\ LET whole == SubSeq(text, 1, Len(text) - d - 1)
                part == SubSeq(text, Len(text) - d + 1, Len(text))
            IN  /\ IsDigits(whole) /\ IsDigits(part)
                /\ whole = ToString(ParseDigits(whole, 0))
                /\ ParseDigits(whole, 0) * Pow10(d) + ParseDigits(part, 0) = n

RawAmountKept ==
    (/\ HasUsedTransfer(norm.tx_data)
     /\ UsedTransfer(norm.tx_data).amount_str.t \in {"str", "null"}
     /\ ~AmountParses(UsedTransfer(norm.tx_data))
     /\ norm.trx_price.t = "float") =>
        /\ norm.called =>
                /\ norm.row # NoRow
                /\ norm.row[8] = UsedTransfer(norm.tx_data).amount_str
        /\ last.op = "log_transaction" =>
                /\ last.ok \/ last.msg = MsgDuplicate \/ last.failed # {}
                /\ last.ok => grid[Len(grid)][8] =
                                CellText(UsedTransfer(norm.tx_data).amount_str)

\* a row whose amount_str is the text abc has been appended with abc as its Amount
RawAmountKeptSeen ==
    /\ HasUsedTransfer(norm.tx_data)
    /\ UsedTransfer(norm.tx_data).amount_str = JStr("abc")
    /\ last.op = "log_transaction" /\ last.ok
    /\ grid[Len(grid)][1] = norm.tx_hash
    /\ grid[Len(grid)][8] = "abc"

\* the micro-unit total of a cost object: 0 when it is absent, not a mapping or holds
\* a fee that is not a number, else fee + energy_fee with a missing component as 0
CostTotal(tx_data) ==
    LET cost == tx_data.cost
    IN  IF cost.t # "dict" THEN 0
        ELSE IF \E c \in {cost.v.fee, cost.v.energy_fee} : c.t \notin {"absent", "int"}
        THEN 0
        ELSE (IF cost.v.fee.t = "int" THEN cost.v.fee.v ELSE 0)
             + (IF cost.v.energy_fee.t = "int" THEN cost.v.energy_fee.v ELSE 0)

\* C18: when the record without its cost object yields a row at a numeric price, the
\* record with it yields a row too; Total Cost TRX is (fee + energy_fee) / 1,000,000
\* with a missing component as 0, and 0 when cost is absent, not a mapping or holds a
\* non-numeric fee; Total Cost USD is that amount times the price.
CostCells ==
    (/\ norm.called
     /\ norm.trx_price.t = "float"
     /\ prepare_transaction_row([norm.tx_data EXCEPT !.cost = Absent], norm.tx_hash,
                                norm.user_id, norm.trx_price, norm.env) # NoRow) =>
        /\ norm.row # NoRow
        /\ norm.row[12] = JStr(Fixed(CostTotal(norm.tx_data), 6))
        /\ norm.row[13] = JStr(FiatText(CostTotal(norm.tx_data), norm.trx_price.v))

\* C19: in a row prepare_transaction_row returns, Time(UTC) is the UTC calendar text
\* of the record's millisecond timestamp, empty when there is none, and Logged At(UTC)
\* is the UTC calendar text of the host's clock, whatever the host's zone.
UtcCells ==
    (norm.called /\ norm.row # NoRow) =>
        /\ (norm.tx_data.timestamp.t = "int" /\ norm.tx_data.timestamp.v > 0) =>
                norm.row[3] = JStr(StrfTime(norm.tx_data.timestamp.v \div 1000))
        /\ norm.tx_data.timestamp.t \in {"absent", "null"} => norm.row[3] = JStr("")
        /\ norm.row[15] = JStr(StrfTime(norm.env.now))

\* text of the shape of a number with d fractional digits
HasFraction(text, d) ==
    /\ Len(text) >= d + 2
    /\ SubSeq(text, Len(text) - d, Len(text) - d) = "."
    /\ IsDigits(SubSeq(text, 1, Len(text) - d - 1))
    /\ IsDigits(SubSeq(text, Len(text) - d + 1, Len(text)))

\* C20: after log_transaction has appended a row under the header row, the row has 15
\* cells, one per header column and in the header's order: cell 1 is the hash passed
\* in, cells 2, 4, 9 and 11 the record's block, sender, result and confirmations,
\* cells 5 to 7 the recipient, contract and symbol of the transfer the row is built
\* from (or toAddress, nothing and TRX without one), cell 10 the status, cells 12 and
\* 13 the costs, cell 14 the caller identity, cells 3 and 15 calendar texts.
RowInHeaderOrder ==
    (last.op = "log_transaction" /\ last.ok) =>
        LET r == grid[Len(grid)]
            tx == norm.tx_data
        IN  /\ grid[1] = Headers
            /\ Len(r) = Len(Headers) /\ Len(r) = 15
            /\ r[1] = norm.tx_hash
            /\ r[2] = PyStr(Get(tx, "block", JStr("")))
            /\ Len(r[3]) \in {0, 19}
            /\ r[4] = CellText(Get(tx, "ownerAddress", JStr("")))
            /\ HasUsedTransfer(tx) =>
                    /\ r[5] = CellText(Get(UsedTransfer(tx), "to_address", JStr("")))
                    /\ r[6] = CellText(Get(UsedTransfer(tx), "contract_address", JStr("")))
                    /\ r[7] = CellText(Get(UsedTransfer(tx), "symbol", JStr("")))
            /\ (FieldAEmpty(tx) /\ ~Truthy(tx.tokenTransferInfo)) =>
                    /\ r[5] = CellText(Get(tx, "toAddress", JStr("")))
                    /\ r[6] = ""
                    /\ r[7] = "TRX"
                    /\ r[8] = "0.000000"
            /\ r[9] = CellText(Get(tx, "contractRet", JStr("")))
            /\ r[10] \in {"CONFIRMED", "PENDING"}
            /\ r[11] = PyStr(Get(tx, "confirmations", JInt(0)))
            /\ HasFraction(r[12], 6)
            /\ HasFraction(r[13], 4)
            /\ r[14] = norm.user_id
            /\ Len(r[15]) = 19

\* a bulk item's row with a token transfer has been appended
RowInHeaderOrderSeen ==
    /\ last.op = "log_transaction" /\ last.ok
    /\ HasUsedTransfer(norm.tx_data)
    /\ Len(grid[Len(grid)]) = 15
    /\ grid[Len(grid)][1] = norm.tx_hash
    /\ grid[Len(grid)][7] = "USDT"
    /\ grid[Len(grid)][14] = USER_ID_FOR_BULK

PresenceFields == {"contractRet", "contract_map", "contractInfo"}

MsgNotFound == "Transaction not found on TRON blockchain"

\* the outcome r of a fetch on response resp, where `present` tells whether the
\* payload counts as carrying a presence field: success exactly for HTTP 200 with a
\* presence field, not-found for HTTP 200 without, an API error with the status for
\* any other status, the timeout outcome for a timeout, and for any other exception
\* a network error with at most 100 characters of its text
Classified(r, resp, timeout_msg, present) ==
    /\ r.success <=> (resp.exc = "none" /\ resp.status = 200 /\ present)
    /\ (resp.exc = "none" /\ resp.status = 200 /\ ~present) => r.msg = MsgNotFound
    /\ (resp.exc = "none" /\ resp.status # 200) =>
            r.msg = "API error: " \o ToString(resp.status)
    /\ resp.exc = "timeout" => r.msg = timeout_msg
    /\ resp.exc \notin {"none", "timeout"} =>
            /\ r.msg = "Network error: " \o
                        (IF Len(resp.exc) > 100 THEN SubSeq(resp.exc, 1, 100) ELSE resp.exc)
            /\ Len(r.msg) <= Len("Network error: ") + 100

\* C21 as stated: both fetch_transaction_data versions classify every response, a
\* payload counting as found when it contains at least one of the three presence fields.
FetchClassified ==
    (probe.fn = "fetch" /\ probe.called) =>
        LET present == /\ probe.resp.data.t = "dict"
                       /\ \E k \in PresenceFields : probe.resp.data.v[k].t # "absent"
        IN  /\ Classified(probe.fetched.bot, probe.resp,
                          "Request timeout - please try again", present)
            /\ Classified(probe.fetched.bulk, probe.resp, "Request timeout", present)

\* C21 amended: both fetch_transaction_data versions classify every response whose
\* payload is a JSON object, a payload counting as found when at least one of the
\* three presence fields holds a value that is not empty (not null, "", 0, false, []
\* or {}); an HTTP 200 payload that is no object is a network error.
FetchClassifiedByValue ==
    (probe.fn = "fetch" /\ probe.called) =>
        IF probe.resp.exc = "none" /\ probe.resp.status = 200 /\ probe.resp.data.t # "dict"
        THEN \A r \in {probe.fetched.bot, probe.fetched.bulk} :
                /\ ~r.success
                /\ SubSeq(r.msg, 1, 15) = "Network error: "
                /\ Len(r.msg) <= 115
        ELSE LET present == /\ probe.resp.data.t = "dict"
                            /\ \E k \in PresenceFields : Truthy(probe.resp.data.v[k])
             IN  /\ Classified(probe.fetched.bot, probe.resp,
                               "Request timeout - please try again", present)
                 /\ Classified(probe.fetched.bulk, probe.resp, "Request timeout", present)

\* an HTTP 200 payload whose only presence field is an empty contractRet has been
\* classified as not found, and an exception text of 120 characters cut to 100
FetchClassifiedByValueSeen ==
    /\ probe.fn = "fetch" /\ probe.called
    /\ \/ /\ probe.resp.exc = "none" /\ probe.resp.status = 200
          /\ probe.resp.data = JDict([EmptyTx EXCEPT !.contractRet = JStr("")])
          /\ probe.fetched.bot = [success |-> FALSE, msg |-> MsgNotFound]
       \/ /\ probe.resp.exc = LongText
          /\ Len(probe.fetched.bot.msg) = 115

\* the price request failed: an exception, a status other than 200, or a payload
\* without ['tron']['usd'] or with a usd value that is not a number
PriceFailed(resp) ==
    \/ resp.exc # "none"
    \/ resp.status # 200
    \/ resp.usd.t \notin {"float", "int"}

\* C22: get_trx_price returns the fallback 0.07 on every failure of the price request,
\* what it returns is a number, and a found record is turned into a row at that price.
PriceFallsBack ==
    (probe.fn = "price" /\ probe.called) =>
        /\ PriceFailed(probe.price) => probe.priced = FallbackPrice
        /\ probe.priced.t \in {"float", "int"}
        /\ \A env \in Hosts :
              prepare_transaction_row(UsdtTx, HashA, ChatUser, probe.priced, env) # NoRow

\* s is 64 hexadecimal digits in any letter case
IsHash64(s) ==
    /\ Len(s) = 64
    /\ \A k \in 1..Len(s) :
          LowerCase(SubSeq(s, k, k)) \in
            {"0", "1", "2", "3", "4", "5", "6", "7", "8", "9", "a", "b", "c", "d", "e", "f"}

\* the result p of a parser whose keywords are `keywords` on the text: no command
\* when the text without the mention, trimmed, starts with no keyword; for a
\* hash-taking command the first quoted 64-hex run, else the first token if it is 64
\* hex digits, else no hash
ParsedAsClaimed(p, text, keywords) ==
    LET clean == Strip(Remove(text, Mention))
        starts == {k \in keywords : StartsWith(clean, k)}
    IN  /\ starts = {} => p = [command |-> NoCommand, tx_hash |-> NoHash]
        /\ starts # {} => p.command \in starts
        /\ p.tx_hash # NoHash => IsHash64(p.tx_hash)
        /\ (starts # {} /\ p.command # "!help") =>
                LET rest == Strip(SubSeq(clean, Len(p.command) + 1, Len(clean)))
                IN  p.tx_hash = (IF QuotedHash(rest) # "" THEN QuotedHash(rest)
                                 ELSE IF IsHash64(FirstToken(rest)) THEN FirstToken(rest)
                                 ELSE NoHash)

\* C23: in both bot versions parse_command returns no command for a text that starts
\* with no keyword, and for a hash-taking command a hash only when it is 64
\* hexadecimal characters: the first quoted run, else the first token, else none.
ParseYieldsValidHash ==
    (probe.fn = "text" /\ probe.called) =>
        /\ ParsedAsClaimed(probe.parsed.fixed, probe.text, {"!get", "!log", "!help"})
        /\ ParsedAsClaimed(probe.parsed.main, probe.text, {"!status", "!get", "!log"})

\* C24: each validator (the two bot versions' validate_hash and the bulk loader's CSV
\* check) returns true exactly when the text, trimmed, is 64 hexadecimal digits in
\* any letter case, so the three agree on every text.
ValidatorsExact ==
    (probe.fn = "hash" /\ probe.called) =>
        /\ probe.valid.fixed = IsHash64(Strip(probe.text))
        /\ probe.valid.csv = IsHash64(Strip(probe.text))
        /\ probe.valid.main = IsHash64(Strip(probe.text))

\* the handler has run on a !get or !log command whose text carries the sample hash
\* of the usage examples
SampleHashHandled ==
    /\ last.op = "handle_app_mentions"
    /\ last.command \in {"!get", "!log"}
    /\ Contains(last.text, HashA)

ErrorRepliesNameHash ==
    (last.op = "handle_app_mentions" /\ last.hash # NoHash) =>
        \A i \in 1..Len(last.replies) :
            last.replies[i].kind \in {"lookup_failed", "not_available", "log_failed"}
                => last.replies[i].hash = last.hash

\* C27: one !log trigger, handled by the chat handler or as a bulk item, sends at
\* most one request to the indexing service, calls append_row at most once and adds
\* at most one row, whatever fails; a row is added only when the trigger's own
\* indexing request was classified as found, and it is that trigger's row.
OneFetchOneAppend ==
    [][(/\ Calls({"handle_app_mentions", "process_hash"})
        /\ last'.op = "handle_app_mentions" => last'.command = "!log")
        => /\ last'.fetches <= 1
           /\ last'.writes <= 1
           /\ last'.found => last'.fetches = 1
           /\ last'.writes = 1 => last'.found
           /\ \/ grid' = grid
              \/ /\ last'.found /\ last'.writes = 1
                 /\ Len(grid') = Len(grid) + 1
                 /\ SubSeq(grid', 1, Len(grid)) = grid
                 /\ grid'[Len(grid')][1] = last'.hash]_vars

\* a !log trigger of the chat handler has appended its row after one indexing
\* request that was classified as found
OneFetchOneAppendSeen ==
    /\ last.op = "handle_app_mentions" /\ last.command = "!log"
    /\ last.found /\ last.fetches = 1 /\ last.writes = 1 /\ last.ok
    /\ grid[Len(grid)][1] = last.hash

\* the handler has run on an app_mention, not the bot's own, whose text parsed to a
\* !get or !log command with a valid hash
ValidTrigger ==
    /\ last.op = "handle_app_mentions"
    /\ last.command \in {"!get", "!log"}
    /\ last.hash # NoHash

\* the handler's posts are one processing message for the hash, then one final result
TwoReplies ==
    /\ Len(last.replies) = 2
    /\ last.replies[1] = Reply("processing", last.hash)
    /\ last.replies[2].kind \in {"analysis", "logged", "log_failed", "lookup_failed"}
    /\ last.replies[2].hash = last.hash

\* C28 as stated: for every such trigger whose chat posts succeed the handler posts
\* exactly one processing message followed by exactly one final result message.
HandlerTwoReplies ==
    (ValidTrigger /\ last.failed \cap {"post1", "post2"} = {}) => TwoReplies

\* C28 amended: for every such trigger the handler returns, a failing post ending it
\* with the messages posted so far; when the posts succeed it posts exactly one
\* processing message followed by exactly one final result message whatever the
\* fetch, price and store calls do, except that a !log trigger received while the
\* store is not connected gets the single not-available message and nothing else.
HandlerReplies ==
    ValidTrigger =>
        IF last.command = "!log" /\ (~mgr.constructed \/ ~mgr.is_connected)
        THEN /\ last.fetches = 0
             /\ last.replies = (IF "post1" \in last.failed THEN <<>>
                                ELSE <<Reply("not_available", NoHash)>>)
        ELSE IF "post1" \in last.failed THEN last.replies = <<>> /\ last.fetches = 0
        ELSE IF "post2" \in last.failed
        THEN last.replies = <<Reply("processing", last.hash)>>
        ELSE TwoReplies

\* a !log trigger whose append failed has got its processing message and then the
\* logging-failed message
HandlerRepliesSeen ==
    /\ ValidTrigger
    /\ last.command = "!log"
    /\ "write" \in last.failed
    /\ last.replies = <<Reply("processing", last.hash), Reply("log_failed", last.hash)>>

\* C29: whenever the SheetsManager is connected, row 1 of the Transactions worksheet
\* is the 15-column header, so every row log_transaction appends lies below it.
HeaderInRowOne ==
    mgr.is_connected => (Len(grid) >= 1 /\ grid[1] = Headers /\ Len(grid[1]) = 15)

\* the items 1 to n, in order
UpTo(n) == [k \in 1..n |-> k]

\* C30: in a bulk_import run that no interrupt has reached, the items whose
\* process_hash call returned are the list's items in file order, each once; an item
\* is counted as skipped exactly when its pre-check found its hash in the ledger,
\* and that step sends no indexing request and appends nothing; when the loop has
\* finished every item has been processed, success + skipped + failed is the number
\* of hashes, and the delay has followed every item except the last.
BulkCounts ==
    [][~run'.interrupted =>
        /\ run'.done = UpTo(Len(run'.done))
        /\ run'.success + run'.skipped + run'.failed = Len(run'.done)
        /\ run'.skipped > run.skipped =>
                /\ run.phase = "precheck"
                /\ \E i \in 1..Len(grid) : grid[i][1] = run.hashes[run.i]
                /\ run'.skipped = run.skipped + 1
                /\ run'.fetches = run.fetches /\ run'.prices = run.prices
                /\ run'.appends = run.appends /\ grid' = grid
        /\ (run.phase = "precheck" /\ run'.phase = "fetch") => run'.skipped = run.skipped
        /\ run'.phase = "finished" =>
                /\ run'.done = UpTo(Len(run'.hashes))
                /\ run'.success + run'.skipped + run'.failed = Len(run'.hashes)
                /\ run'.sleeps = UpTo(Len(run'.hashes) - 1)]_vars

\* a run over a list of two equal hashes has finished without an interrupt: the
\* first item logged, the second skipped, one delay between them
BulkCountsSeen ==
    /\ run.phase = "finished" /\ ~run.interrupted
    /\ Len(run.hashes) = 2
    /\ run.done = <<1, 2>>
    /\ run.success = 1 /\ run.skipped = 1 /\ run.failed = 0
    /\ run.sleeps = <<1>>
    /\ run.fetches = 1 /\ run.appends = 1

====
